---- MODULE Spec2Model ----
(***************************************************************************)
(* A model of the competition-application portal (beofrosty/leaders):      *)
(* the PostgreSQL schema bootstrap of app/db.py with its status            *)
(* normalisation triggers and CHECK constraints, and the Flask route       *)
(* handlers of app/routes (applicant form, commission decisions, test      *)
(* taking, provisioning of internal accounts) with the session role        *)
(* checks of app/decorators.py.                                            *)
(*                                                                         *)
(* Text values are sequences of one-character strings.  The module is      *)
(* written in ASCII, so a Cyrillic letter is written as the token          *)
(* "cyr_x" (lower case) or "CYR_X" (upper case).  SQL NULL / Python None   *)
(* is the value NULL, which is no text.                                    *)
(***************************************************************************)
EXTENDS Integers, Sequences, FiniteSets, TLC

VARIABLES
    schema,              \* the schema objects that exist in the database
    seq,                 \* applications_public_no_seq: [last, called]
    applications,        \* table applications: id -> row
    commission_logs,     \* table commission_logs: id -> row
    users,               \* table users: id -> row
    sessions,            \* the browsers' Flask sessions: id -> session dict
    internal_user_logs,  \* table internal_user_logs: the number of its rows
    tests,               \* table tests: id -> row
    test_attempts,       \* table test_attempts: id -> row
    now,                 \* the clock (NOW(), datetime.now)
    resp,                \* the response to the last request
    outbox,              \* number of decision e-mails handed to the mailer
    boot,                \* history: the runs of bootstrap_schema
    approved_via,        \* history: application id -> handler that approved it
    first_deadline,      \* history: session, test -> first deadline served
    password_resets,     \* table password_resets: token -> row
    procs,               \* requests in flight: worker -> its position and locals
    advisory_lock        \* pg_advisory_lock(764392): the session that holds it

dbVars   == <<schema, seq, applications, commission_logs>>
acctVars == <<users, sessions, internal_user_logs>>
testVars == <<tests, test_attempts>>
envVars  == <<now, resp, outbox>>
histVars == <<boot, approved_via, first_deadline>>
reqVars  == <<password_resets, procs, advisory_lock>>

NoProc == "no_proc"   \* no session holds the advisory lock
vars     == <<schema, seq, applications, commission_logs, users, sessions,
              internal_user_logs, tests, test_attempts, now, resp, outbox,
              boot, approved_via, first_deadline, password_resets, procs,
              advisory_lock>>

(***************************************************************************)
(* Bounds of the model.                                                    *)
(***************************************************************************)
MaxRuns     == 3      \* runs of bootstrap_schema in one behaviour
MaxPublicNo == 2      \* largest public_no found in a legacy database
MaxTime     == 2      \* the clock runs from 0 to MaxTime
MaxLogs     == 2      \* rows of internal_user_logs in one behaviour
MaxLen      == 3      \* length of the texts given to to_status_code

(***************************************************************************)
(* Text.                                                                   *)
(***************************************************************************)
NULL == <<"NULL">>

S_empty     == << >>
S_space     == <<" ">>
S_Odobreno  == <<"CYR_O","cyr_d","cyr_o","cyr_b","cyr_r","cyr_e","cyr_n","cyr_o">>
S_Otkloneno == <<"CYR_O","cyr_t","cyr_k","cyr_l","cyr_o","cyr_n","cyr_e","cyr_n","cyr_o">>
S_odobr     == <<"cyr_o","cyr_d","cyr_o","cyr_b","cyr_r">>
S_otklon    == <<"cyr_o","cyr_t","cyr_k","cyr_l","cyr_o","cyr_n">>
S_da        == <<"cyr_d","cyr_a">>
S_net       == <<"cyr_n","cyr_e","cyr_t">>
S_approved  == <<"a","p","p","r","o","v","e","d">>
S_1         == <<"1">>
S_reject    == <<"r","e","j","e","c","t">>
S_rejected  == <<"r","e","j","e","c","t","e","d">>
\* other texts the model feeds in
S_Approved_sp == <<" ","A","p","p","r","o","v","e","d"," ">>
S_pending     == <<"p","e","n","d","i","n","g">>
S_ky_approved == <<"CYR_ZH","cyr_a","cyr_k","cyr_t","cyr_y">>
S_ky_rejected == <<"CYR_CH","cyr_e","cyr_t","cyr_k","cyr_e">>
S_reason      == <<"w","h","y">>

\* lower() of SQL and str.lower() of Python, on the letters the model uses
LowerChar(c) ==
    CASE c = "A"      -> "a"
      [] c = "CYR_O"  -> "cyr_o"
      [] c = "CYR_ZH" -> "cyr_zh"
      [] c = "CYR_CH" -> "cyr_ch"
      [] OTHER        -> c

lower(s) == [i \in 1..Len(s) |-> LowerChar(s[i])]

RECURSIVE ltrim(_)
ltrim(s) == IF s # << >> /\ Head(s) = " " THEN ltrim(Tail(s)) ELSE s

RECURSIVE rtrim(_)
rtrim(s) ==
    IF s # << >> /\ s[Len(s)] = " " THEN rtrim(SubSeq(s, 1, Len(s) - 1)) ELSE s

\* btrim(s) of SQL and str.strip() of Python (the only blank here is " ")
btrim(s) == rtrim(ltrim(s))

\* v LIKE 'p%' and str.startswith(p)
StartsWith(v, p) == Len(v) >= Len(p) /\ SubSeq(v, 1, Len(p)) = p

\* approve, approved, ok, accept, accepted, да, true, 1
ApprovedWords ==
    {<<"a","p","p","r","o","v","e">>, S_approved, <<"o","k">>,
     <<"a","c","c","e","p","t">>,
     <<"a","c","c","e","p","t","e","d">>, S_da,
     <<"t","r","u","e">>, S_1}
\* reject, rejected, deny, denied, cancel, нет, false, 0
RejectedWords ==
    {S_reject, S_rejected, <<"d","e","n","y">>,
     <<"d","e","n","i","e","d">>, <<"c","a","n","c","e","l">>,
     S_net, <<"f","a","l","s","e">>, <<"0">>}

\* a to_status_code that returns what it compared, v, not what it was given
to_status_code_trimmed(s) ==
    IF s = NULL \/ btrim(s) = S_empty
    THEN NULL
    ELSE LET v == lower(btrim(s)) IN
         IF StartsWith(v, S_odobr) \/ v \in ApprovedWords THEN S_approved
         ELSE IF StartsWith(v, S_otklon) \/ v \in RejectedWords THEN S_rejected
         ELSE v

\* the SQL function to_status_code(s text)
to_status_code(s) ==
    IF s = NULL \/ btrim(s) = S_empty
    THEN NULL
    ELSE LET v == lower(btrim(s)) IN
         IF StartsWith(v, S_odobr) \/ v \in ApprovedWords THEN S_approved
         ELSE IF StartsWith(v, S_otklon) \/ v \in RejectedWords THEN S_rejected
         ELSE s

StatusCodes == {S_approved, S_rejected}

(***************************************************************************)
(* The schema objects and the row-level rules they impose.                 *)
(***************************************************************************)
AllTables ==
    {"users", "applications", "tests", "test_attempts", "password_resets",
     "internal_user_logs", "commission_logs"}
AllTriggers == {"trg_applications_status_norm", "trg_commission_logs_status_norm"}
AllChecks   == {"chk_app_commission_status_codes", "chk_commission_logs_status_codes"}

\* trigger function trg_applications_status_norm: BEFORE INSERT OR UPDATE
trg_applications_status_norm(row) ==
    [row EXCEPT !.commission_status = to_status_code(@)]

\* trigger function trg_commission_logs_status_norm
trg_commission_logs_status_norm(row) ==
    [row EXCEPT !.old_status = to_status_code(@),
                !.new_status = to_status_code(@)]

\* a CHECK that lets every row through
chk_anything(row) == TRUE

\* CHECK (commission_status IN ('approved','rejected') OR ... IS NULL)
chk_app_commission_status_codes(row) ==
    row.commission_status \in StatusCodes \/ row.commission_status = NULL

\* CHECK on commission_logs.old_status and new_status
chk_commission_logs_status_codes(row) ==
    /\ (row.old_status \in StatusCodes \/ row.old_status = NULL)
    /\ (row.new_status \in StatusCodes \/ row.new_status = NULL)

\* the row PostgreSQL is about to store in applications, after the triggers
AppRowAfterTriggers(sch, row) ==
    IF "trg_applications_status_norm" \in sch.triggers
    THEN trg_applications_status_norm(row) ELSE row

\* whether the constraints in force accept the row
AppRowAccepted(sch, row) ==
    "chk_app_commission_status_codes" \in sch.checks
        => chk_app_commission_status_codes(row)

LogRowAfterTriggers(sch, row) ==
    IF "trg_commission_logs_status_norm" \in sch.triggers
    THEN trg_commission_logs_status_norm(row) ELSE row

LogRowAccepted(sch, row) ==
    "chk_commission_logs_status_codes" \in sch.checks
        => chk_commission_logs_status_codes(row)

(***************************************************************************)
(* _apply_bootstrap_sql: the DDL and the data migration, in one            *)
(* transaction.                                                            *)
(***************************************************************************)
AppIds == {"a1", "a2"}
LogIds == {"l1"}

\* the value of a sequence after setval(seq, v, false)
setval(v) == [last |-> v, called |-> FALSE]

\* what nextval returns
nextval(sq) == IF sq.called THEN sq.last + 1 ELSE sq.last

\* the sequence after nextval
advance(sq) == [last |-> nextval(sq), called |-> TRUE]

RECURSIVE SetMax(_)
SetMax(S) ==
    IF S = {} THEN 0
    ELSE LET x == CHOOSE y \in S : TRUE
             m == SetMax(S \ {x})
         IN IF x > m THEN x ELSE m

\* COALESCE((SELECT MAX(public_no) FROM applications), 0)
MaxPublicNoOf(apps) ==
    SetMax({apps[a].public_no : a \in DOMAIN apps})

\* the orders in which an UPDATE may visit the rows S
Orders(S) ==
    {o \in [1..Cardinality(S) -> S] : \A i, j \in DOMAIN o : o[i] = o[j] => i = j}

\* public_no is a number; 0 stands for NULL (the sequence starts at 1)
NullNo(apps) == {a \in DOMAIN apps : apps[a].public_no = 0}

\* an UPDATE of public_no that leaves out WHERE public_no IS NULL
fill_public_no_all(apps, order, start) ==
    LET o == CHOOSE f \in Orders(DOMAIN apps) : TRUE IN
    [a \in DOMAIN apps |->
        [apps[a] EXCEPT !.public_no =
            start - 1 + (CHOOSE i \in DOMAIN o : o[i] = a)]]

\* UPDATE applications SET public_no = nextval(..) WHERE public_no IS NULL,
\* the rows visited in the given order, the first nextval returning start
fill_public_no(apps, order, start) ==
    [a \in DOMAIN apps |->
        IF \E i \in DOMAIN order : order[i] = a
        THEN [apps[a] EXCEPT !.public_no =
                 start - 1 + (CHOOSE i \in DOMAIN order : order[i] = a)]
        ELSE apps[a]]

\* CREATE UNIQUE INDEX ... ON applications (public_no) finds duplicate keys
DuplicatePublicNo(apps) ==
    \E a, b \in DOMAIN apps :
        a # b /\ apps[a].public_no # 0 /\ apps[a].public_no = apps[b].public_no

\* UPDATE applications SET commission_status = to_status_code(..)
\*  WHERE commission_status IS NOT NULL   (the new trigger fires on it)
migrate_app_status(apps) ==
    [a \in DOMAIN apps |->
        IF apps[a].commission_status # NULL
        THEN trg_applications_status_norm(
                 [apps[a] EXCEPT !.commission_status = to_status_code(@)])
        ELSE apps[a]]

\* UPDATE applications SET commission_status = NULL WHERE it is no code
sanitize_app_status(apps) ==
    [a \in DOMAIN apps |->
        IF apps[a].commission_status # NULL
           /\ apps[a].commission_status \notin StatusCodes
        THEN trg_applications_status_norm(
                 [apps[a] EXCEPT !.commission_status = NULL])
        ELSE apps[a]]

\* UPDATE commission_logs SET old_status = .., new_status = ..
\*  WHERE old_status IS NOT NULL OR new_status IS NOT NULL
migrate_log_status(logs) ==
    [l \in DOMAIN logs |->
        IF logs[l].old_status # NULL \/ logs[l].new_status # NULL
        THEN trg_commission_logs_status_norm(
                 [logs[l] EXCEPT !.old_status = to_status_code(@),
                                 !.new_status = to_status_code(@)])
        ELSE logs[l]]

\* the two UPDATEs that null every old_status / new_status that is no code
sanitize_log_status(logs) ==
    LET one == [l \in DOMAIN logs |->
                   IF logs[l].old_status # NULL
                      /\ logs[l].old_status \notin StatusCodes
                   THEN trg_commission_logs_status_norm(
                            [logs[l] EXCEPT !.old_status = NULL])
                   ELSE logs[l]]
    IN [l \in DOMAIN one |->
           IF one[l].new_status # NULL /\ one[l].new_status \notin StatusCodes
           THEN trg_commission_logs_status_norm(
                    [one[l] EXCEPT !.new_status = NULL])
           ELSE one[l]]

\* The whole script on the current database, the NULL public_no rows
\* numbered in the given order.  ok = FALSE: a statement raised.
_apply_bootstrap_sql(order) ==
    LET start  == MaxPublicNoOf(applications) + 1
        sq0    == setval(start)
        apps1  == fill_public_no(applications, order, start)
        sq1    == IF Len(order) = 0 THEN sq0
                  ELSE [last |-> start + Len(order) - 1, called |-> TRUE]
        \* CREATE UNIQUE INDEX IF NOT EXISTS idx_app_public_no
        idx_ok == schema.idx_app_public_no \/ ~DuplicatePublicNo(apps1)
        apps2  == migrate_app_status(apps1)
        logs2  == migrate_log_status(commission_logs)
        \* constraints left by an earlier run are in force during the UPDATEs
        upd_ok == /\ \A a \in DOMAIN apps2 : AppRowAccepted(schema, apps2[a])
                  /\ \A l \in DOMAIN logs2 : LogRowAccepted(schema, logs2[l])
        apps3  == sanitize_app_status(apps2)
        logs3  == sanitize_log_status(logs2)
        \* ALTER TABLE ... ADD CONSTRAINT validates the rows present
        add_ok == /\ \A a \in DOMAIN apps3 : chk_app_commission_status_codes(apps3[a])
                  /\ \A l \in DOMAIN logs3 : chk_commission_logs_status_codes(logs3[l])
    IN [ok |-> idx_ok /\ upd_ok /\ add_ok,
        schema |-> [tables |-> AllTables,
                    public_no_col |-> TRUE,
                    idx_app_public_no |-> TRUE,
                    public_no_not_null |-> TRUE,
                    triggers |-> AllTriggers,
                    checks |-> AllChecks],
        seq |-> sq1,
        applications |-> apps3,
        commission_logs |-> logs3]

\* what a run of bootstrap_schema leaves, as far as the rows and the
\* schema objects go
Snapshot(sch, apps, logs) ==
    [schema |-> sch, applications |-> apps, commission_logs |-> logs]

\* bootstrap_schema(conn=conn): _apply_bootstrap_sql and COMMIT on the
\* caller's connection; a statement that raises leaves the transaction
\* failed, to be rolled back, and the exception leaves the function
bootstrap_schema_conn ==
    /\ boot.runs < MaxRuns
    /\ \E order \in Orders(NullNo(applications)) :
         LET r == _apply_bootstrap_sql(order) IN
         IF r.ok
         THEN /\ schema' = r.schema
              /\ seq' = r.seq
              /\ applications' = r.applications
              /\ commission_logs' = r.commission_logs
              /\ boot' = [runs |-> boot.runs + 1,
                          ok |-> TRUE,
                          first_ok |-> IF boot.runs = 0 THEN TRUE ELSE boot.first_ok,
                          first |-> IF boot.runs = 0
                                    THEN Snapshot(r.schema, r.applications,
                                                  r.commission_logs)
                                    ELSE boot.first]
         ELSE /\ UNCHANGED dbVars
              /\ boot' = [runs |-> boot.runs + 1,
                          ok |-> FALSE,
                          first_ok |-> IF boot.runs = 0 THEN FALSE ELSE boot.first_ok,
                          first |-> boot.first]
    /\ UNCHANGED <<acctVars, testVars, envVars, approved_via, first_deadline>>

\* bootstrap_schema(): the same on a connection of its own
bootstrap_schema == bootstrap_schema_conn /\ UNCHANGED reqVars

(***************************************************************************)
(* SpecBootstrap: bootstrap_schema run again and again on a database it    *)
(* has never seen: empty, or left by an earlier version of the schema.     *)
(***************************************************************************)
NoResp ==
    [route |-> "none", sid |-> "none", method |-> "none", arg |-> "none",
     code |-> 0, info |-> "none", score |-> -1]

LegacyStatuses ==
    {NULL, S_Odobreno, S_Otkloneno, S_approved, S_Approved_sp, S_pending, S_space}
LegacyLogStatuses == {NULL, S_Odobreno, S_rejected, S_pending}

LegacyAppRows(nos) ==
    [user_id : {"u1"}, commission_status : LegacyStatuses,
     commission_comment : {NULL}, public_no : nos, created_at : {0}]

LegacyLogRows(apps) ==
    [app_id : apps, admin_id : {NULL}, action : {"decision"},
     old_status : LegacyLogStatuses, new_status : LegacyLogStatuses]

FreshSchema ==
    [tables |-> {}, public_no_col |-> FALSE, idx_app_public_no |-> FALSE,
     public_no_not_null |-> FALSE, triggers |-> {}, checks |-> {}]

LegacySchema(col) ==
    [tables |-> AllTables, public_no_col |-> col, idx_app_public_no |-> FALSE,
     public_no_not_null |-> FALSE, triggers |-> {}, checks |-> {}]

InitRest ==
    /\ users = << >>
    /\ sessions = << >>
    /\ internal_user_logs = 0
    /\ tests = << >>
    /\ test_attempts = << >>
    /\ now = 0
    /\ resp = NoResp
    /\ outbox = 0
    /\ approved_via = << >>
    /\ first_deadline = << >>
    /\ password_resets = << >>
    /\ procs = << >>
    /\ advisory_lock = NoProc

InitBootstrap ==
    /\ \/ /\ schema = FreshSchema
          /\ applications = << >>
          /\ commission_logs = << >>
       \/ \E col \in BOOLEAN, ids \in SUBSET AppIds :
            /\ schema = LegacySchema(col)
            /\ applications \in
                 [ids -> LegacyAppRows(IF col THEN 0..MaxPublicNo ELSE {0})]
            /\ \E lids \in SUBSET LogIds :
                 /\ (ids = {} => lids = {})
                 /\ commission_logs \in [lids -> LegacyLogRows(ids)]
    /\ seq = setval(1)
    /\ boot = [runs |-> 0, ok |-> TRUE, first_ok |-> FALSE,
               first |-> Snapshot(schema, applications, commission_logs)]
    /\ InitRest

NextBootstrap == bootstrap_schema

SpecBootstrap == InitBootstrap /\ [][NextBootstrap]_vars

\* C1: bootstrap_schema is idempotent: when the first run succeeded, every
\* later run succeeds too and leaves the rows of applications (with
\* commission_status and public_no) and of commission_logs (old_status,
\* new_status) and the tables, triggers and CHECK constraints exactly as
\* the first run left them.
C1_BootstrapIdempotent ==
    (boot.runs >= 2 /\ boot.first_ok) =>
        /\ boot.ok
        /\ applications = boot.first.applications
        /\ commission_logs = boot.first.commission_logs
        /\ schema = boot.first.schema

\* a second run was made on a database with legacy statuses and unnumbered
\* rows that the first run migrated
C1_Witness ==
    /\ boot.runs = 2
    /\ boot.first_ok
    /\ \E a \in DOMAIN applications :
         /\ applications[a].commission_status = S_approved
         /\ applications[a].public_no = MaxPublicNo + 1
    /\ \E l \in DOMAIN commission_logs : commission_logs[l].old_status = S_approved

(***************************************************************************)
(* Accounts, sessions and the role checks of app/decorators.py.            *)
(***************************************************************************)
NoUser  == "no_user"       \* get_user_by_email found no row
NoEmail == ""              \* the session holds no 'user_email'
NoTime  == -1              \* NULL in a TIMESTAMPTZ column, no deadline in a session

\* werkzeug's generate_password_hash / check_password_hash, without the salt
generate_password_hash(pw) == <<"hash", pw>>

\* a password check that lets every password through
check_password_hash_any(h, pw) == TRUE

check_password_hash(h, pw) == h = generate_password_hash(pw)

UserRow(email, role, pw, exp, must) ==
    [email |-> email, role |-> role, is_active |-> TRUE,
     access_expires_at |-> exp, must_change_password |-> must,
     is_verified |-> TRUE, password_hash |-> generate_password_hash(pw),
     full_name |-> "name"]

\* SELECT * FROM users WHERE LOWER(email) = LOWER(%s); every writer of
\* users.email lower-cases it, so e-mails are compared as they are
get_user_by_email(email) ==
    IF email = NoEmail THEN NoUser
    ELSE IF \E u \in DOMAIN users : users[u].email = email
         THEN CHOOSE u \in DOMAIN users : users[u].email = email
         ELSE NoUser

\* decorators.current_user
current_user(sid) == get_user_by_email(sessions[sid].user_email)

\* decorators.login_required lets the request through
login_required(sid) == sessions[sid].user_email # NoEmail

\* decorators.admin_required lets the request through
admin_required(sid) ==
    LET u == current_user(sid) IN u # NoUser /\ users[u].role = "admin"

\* a provisioner check that forgets is_active and access_expires_at
provisioner_required_role_only(sid) ==
    LET u == get_user_by_email(sessions[sid].user_email) IN
    u # NoUser /\ users[u].role = "provisioner"

\* decorators.provisioner_required lets the request through
provisioner_required(sid) ==
    LET u == get_user_by_email(sessions[sid].user_email) IN
    /\ u # NoUser
    /\ users[u].role = "provisioner"
    /\ users[u].is_active
    /\ ~(users[u].access_expires_at # NoTime /\ users[u].access_expires_at < now)

\* the response: the view, the session and the method of the request, the
\* row its URL names, the HTTP status, what the body, the flash message or
\* the redirect target says, and the score a result page shows
NoScore == -1              \* the response shows no score
RespondFor(route, sid, method, arg, code, info, score) ==
    resp' = [route |-> route, sid |-> sid, method |-> method, arg |-> arg,
             code |-> code, info |-> info, score |-> score]

\* the response to a request that names no row
Respond(route, sid, method, code, info) ==
    RespondFor(route, sid, method, "none", code, info, NoScore)

\* uuid.uuid4(): a key no row has; which one makes no difference, so the
\* first of the pool that is free is taken
uuid4(pool, used) ==
    IF pool \ used = {} THEN {}
    ELSE {CHOOSE id \in pool \ used : TRUE}

\* Python truthiness of a text column read from the database
Truthy(s) == s # NULL /\ s # S_empty

(***************************************************************************)
(* main.form: POST /form creates the user's application.                   *)
(***************************************************************************)
\* a form handler that skips the COUNT(*)
never_submitted(u) == FALSE

\* SELECT COUNT(*) FROM applications WHERE user_id = %s, compared with 0
already_submitted(u) ==
    Cardinality({a \in DOMAIN applications : applications[a].user_id = u}) > 0

NewAppRow(u) ==
    [user_id |-> u, commission_status |-> NULL, commission_comment |-> NULL,
     public_no |-> nextval(seq), created_at |-> now]

form(sid, method) ==
    /\ LET u == get_user_by_email(sessions[sid].user_email) IN
       IF ~login_required(sid) \/ u = NoUser
       THEN /\ Respond("form", sid, method, 302, "login")
            /\ UNCHANGED <<applications, seq>>
       ELSE IF method = "GET"
       THEN /\ Respond("form", sid, method, 302,
                       IF users[u].role = "admin" THEN "admin" ELSE "index")
            /\ UNCHANGED <<applications, seq>>
       ELSE IF already_submitted(u)
       THEN /\ Respond("form", sid, method, 302, "already_submitted")
            /\ UNCHANGED <<applications, seq>>
       ELSE \E id \in uuid4(AppIds, DOMAIN applications) :
              LET row == AppRowAfterTriggers(schema, NewAppRow(u)) IN
              IF AppRowAccepted(schema, row)
              THEN /\ applications' =
                        [a \in DOMAIN applications \cup {id} |->
                            IF a = id THEN row ELSE applications[a]]
                   /\ seq' = advance(seq)
                   /\ Respond("form", sid, method, 302, "submitted")
              ELSE /\ Respond("form", sid, method, 302, "db_error")
                   /\ UNCHANGED <<applications, seq>>
    /\ UNCHANGED <<schema, commission_logs, acctVars, testVars, now, outbox,
                   histVars, reqVars>>

(***************************************************************************)
(* admin.admin_update_app_status and admin.admin_decide.                   *)
(***************************************************************************)
\* UPDATE applications SET commission_status = %s, commission_comment = %s
\*  WHERE id = %s: the row as PostgreSQL would store it
UpdatedAppRow(id, status, comment) ==
    AppRowAfterTriggers(schema,
        [applications[id] EXCEPT !.commission_status = status,
                                 !.commission_comment = comment])

\* a guard that never finds a decision
never_decided(status) == FALSE

\* "if row['commission_status']:" of both decision handlers
is_decided(status) == Truthy(status)

admin_update_app_status(sid, app_id, status, comment) ==
    /\ IF ~admin_required(sid)
       THEN /\ RespondFor("admin_update_app_status", sid, "POST", app_id, 302, "admins_only", NoScore)
            /\ UNCHANGED <<applications, outbox, approved_via>>
       ELSE IF status \notin {S_Odobreno, S_Otkloneno}
       THEN /\ RespondFor("admin_update_app_status", sid, "POST", app_id, 302, "bad_status", NoScore)
            /\ UNCHANGED <<applications, outbox, approved_via>>
       ELSE IF app_id \notin DOMAIN applications
       THEN /\ RespondFor("admin_update_app_status", sid, "POST", app_id, 302, "not_found", NoScore)
            /\ UNCHANGED <<applications, outbox, approved_via>>
       ELSE IF is_decided(applications[app_id].commission_status)
       THEN /\ RespondFor("admin_update_app_status", sid, "POST", app_id, 302, "already_decided", NoScore)
            /\ UNCHANGED <<applications, outbox, approved_via>>
       ELSE LET row == UpdatedAppRow(app_id, status, comment) IN
            IF AppRowAccepted(schema, row)
            THEN /\ applications' = [applications EXCEPT ![app_id] = row]
                 \* the applicant's e-mail address is never empty here
                 /\ outbox' = outbox + 1
                 /\ approved_via' =
                      IF status = S_Odobreno
                      THEN [a \in DOMAIN approved_via \cup {app_id} |->
                               IF a = app_id THEN "admin_update_app_status"
                               ELSE approved_via[a]]
                      ELSE approved_via
                 /\ RespondFor("admin_update_app_status", sid, "POST", app_id, 302, "updated", NoScore)
            ELSE /\ RespondFor("admin_update_app_status", sid, "POST", app_id, 500, "db_error", NoScore)
                 /\ UNCHANGED <<applications, outbox, approved_via>>
    /\ UNCHANGED <<schema, seq, commission_logs, acctVars, testVars, now,
                   boot, reqVars, first_deadline>>

\* flask_babel gettext: the msgid, or its translation when the catalogue of
\* the request's locale has one
gettext(msgid, translated) ==
    IF ~translated THEN msgid
    ELSE IF msgid = S_Odobreno THEN S_ky_approved ELSE S_ky_rejected

admin_decide(sid, app_id, raw_status, raw_reason, translated) ==
    /\ LET u      == get_user_by_email(sessions[sid].user_email)
           status == btrim(lower(raw_status))
           reason == btrim(raw_reason)
           status_label == gettext(IF status = S_approved THEN S_Odobreno
                                   ELSE S_Otkloneno, translated)
       IN
       IF u = NoUser \/ users[u].role # "admin"
       THEN /\ RespondFor("admin_decide", sid, "POST", app_id, 403, "forbidden", NoScore)
            /\ UNCHANGED <<applications, outbox, approved_via>>
       ELSE IF status \notin {S_approved, S_rejected}
       THEN /\ RespondFor("admin_decide", sid, "POST", app_id, 400, "bad_status", NoScore)
            /\ UNCHANGED <<applications, outbox, approved_via>>
       ELSE IF status = S_rejected /\ reason = S_empty
       THEN /\ RespondFor("admin_decide", sid, "POST", app_id, 400, "need_reason", NoScore)
            /\ UNCHANGED <<applications, outbox, approved_via>>
       ELSE IF app_id \notin DOMAIN applications
       THEN /\ RespondFor("admin_decide", sid, "POST", app_id, 404, "not_found", NoScore)
            /\ UNCHANGED <<applications, outbox, approved_via>>
       ELSE IF is_decided(applications[app_id].commission_status)
       THEN /\ RespondFor("admin_decide", sid, "POST", app_id, 409, "already_decided", NoScore)
            /\ UNCHANGED <<applications, outbox, approved_via>>
       ELSE LET row == UpdatedAppRow(app_id, status_label,
                                     IF reason = S_empty THEN NULL ELSE reason)
            IN
            IF AppRowAccepted(schema, row)
            THEN /\ applications' = [applications EXCEPT ![app_id] = row]
                 /\ outbox' = outbox + 1
                 /\ approved_via' =
                      IF status = S_approved
                      THEN [a \in DOMAIN approved_via \cup {app_id} |->
                               IF a = app_id THEN "admin_decide"
                               ELSE approved_via[a]]
                      ELSE approved_via
                 /\ RespondFor("admin_decide", sid, "POST", app_id, 200, "ok", NoScore)
            \* CheckViolation: the transaction is rolled back, the view raises
            ELSE /\ RespondFor("admin_decide", sid, "POST", app_id, 500, "db_error", NoScore)
                 /\ UNCHANGED <<applications, outbox, approved_via>>
    /\ UNCHANGED <<schema, seq, commission_logs, acctVars, testVars, now,
                   boot, reqVars, first_deadline>>

(***************************************************************************)
(* audit.log_commission_action: one row into commission_logs.              *)
(***************************************************************************)
log_commission_action(app_id, admin_id, action, old_status, new_status) ==
    /\ \E id \in uuid4(LogIds, DOMAIN commission_logs) :
         LET row == LogRowAfterTriggers(schema,
                        [app_id |-> app_id, admin_id |-> admin_id,
                         action |-> action, old_status |-> old_status,
                         new_status |-> new_status])
         IN
         \* app_id REFERENCES applications(id), and the CHECK
         IF app_id \in DOMAIN applications /\ LogRowAccepted(schema, row)
         THEN /\ commission_logs' =
                   [l \in DOMAIN commission_logs \cup {id} |->
                       IF l = id THEN row ELSE commission_logs[l]]
              /\ RespondFor("log_commission_action", "none", "none", app_id, 200, "logged", NoScore)
         ELSE /\ UNCHANGED commission_logs
              /\ RespondFor("log_commission_action", "none", "none", app_id, 500, "db_error", NoScore)
    /\ UNCHANGED <<schema, seq, applications, acctVars, testVars, now, outbox,
                   histVars, reqVars>>

(***************************************************************************)
(* tests.py: the approval gate, the list of tests, taking a test.          *)
(***************************************************************************)
NoApp == "no_application"

\* ORDER BY created_at DESC NULLS LAST LIMIT 1: the rows that can come first
LatestApps(u) ==
    LET mine == {a \in DOMAIN applications : applications[a].user_id = u} IN
    IF mine = {} THEN {NoApp}
    ELSE {a \in mine : \A b \in mine :
              applications[b].created_at <= applications[a].created_at}

\* a gate that lets everybody in
_user_has_approved_always(a) == TRUE

\* tests._user_has_approved, a being the row its SELECT returned
_user_has_approved(a) ==
    IF a = NoApp THEN FALSE
    ELSE LET st == applications[a].commission_status
             s  == btrim(IF Truthy(st) THEN st ELSE S_empty)
         IN StartsWith(lower(s), S_odobr)

\* tests._require_approved_or_redirect: "ok", or where it redirects to
_require_approved_or_redirect(sid, a) ==
    IF current_user(sid) = NoUser THEN "login"
    ELSE IF ~_user_has_approved(a) THEN "need_approval"
    ELSE "ok"

\* insertion of x into the sorted sequence s
Insert(x, s) ==
    LET k == Cardinality({i \in 1..Len(s) : s[i] <= x}) IN
    SubSeq(s, 1, k) \o <<x>> \o SubSeq(s, k + 1, Len(s))

\* Python's sorted() on a list of integers
RECURSIVE sorted(_)
sorted(s) == IF s = <<>> THEN <<>> ELSE Insert(Head(s), sorted(Tail(s)))

\* sorted(set(...)) on a set of integers
RECURSIVE sorted_set(_)
sorted_set(S) ==
    IF S = {} THEN <<>>
    ELSE LET m == CHOOSE x \in S : \A y \in S : x <= y
         IN <<m>> \o sorted_set(S \ {m})

\* the items of a list whose str() is made of digits
Digits(s) == SelectSeq(s, LAMBDA x : x >= 0)

\* tests._normalize_questions on one stored question; an option list plays
\* no part in scoring
normalize_question(q) ==
    LET corr == Digits(q.correct)
        multiple == q.multiple
                    \/ q.type \in {"multi", "multiple", "checkbox", "checkboxes"}
                    \/ Len(corr) > 0
    IN [multiple |-> multiple,
        correct_index |-> IF multiple THEN <<>> ELSE q.correct_index,
        correct |-> IF multiple THEN corr ELSE <<>>]

_normalize_questions(raw) == [i \in 1..Len(raw) |-> normalize_question(raw[i])]

\* the answer take_test reads for question i: the values posted under q<i>
\* are a list of integers, -1 standing for a value that is not a number
answer_of(q, vals) ==
    IF q.multiple THEN sorted_set({vals[k] : k \in 1..Len(vals)} \ {-1})
    ELSE <<Head(vals)>>

\* one point for a question answered right
point(q, vals) ==
    IF q.multiple
    THEN IF q.correct # <<>> /\ answer_of(q, vals) = sorted(q.correct)
         THEN 1 ELSE 0
    ELSE IF q.correct_index # <<>> /\ answer_of(q, vals) = q.correct_index
         THEN 1 ELSE 0

RECURSIVE score_upto(_, _, _)
score_upto(questions, posted, n) ==
    IF n = 0 THEN 0
    ELSE score_upto(questions, posted, n - 1) + point(questions[n], posted[n])

score_of(questions, posted) == score_upto(questions, posted, Len(questions))

\* a lookup that never finds an earlier attempt
NoAttempts(u, tid) == {}

\* the attempts of user u at test tid that ORDER BY finished_at DESC NULLS
\* LAST LIMIT 1 can return
LatestAttempts(u, tid) ==
    LET mine == {t \in DOMAIN test_attempts :
                    test_attempts[t].user_id = u /\ test_attempts[t].test_id = tid}
    IN {t \in mine : \A o \in mine :
            test_attempts[o].finished_at <= test_attempts[t].finished_at}

\* session.pop(end_key) and session[end_key] = ...
SetTestEnd(sid, tid, t) ==
    sessions' = [sessions EXCEPT ![sid].test_end =
                    IF tid \in DOMAIN @ THEN [@ EXCEPT ![tid] = t] ELSE @]

TestEnd(sid, tid) ==
    IF tid \in DOMAIN sessions[sid].test_end
    THEN sessions[sid].test_end[tid] ELSE NoTime

RememberFirstDeadline(sid, tid, t) ==
    first_deadline' =
        IF <<sid, tid>> \in DOMAIN first_deadline THEN first_deadline
        ELSE [k \in DOMAIN first_deadline \cup {<<sid, tid>>} |->
                 IF k = <<sid, tid>> THEN t ELSE first_deadline[k]]

AttemptIds == {"at1", "at2", "at3"}

\* tests.tests_select: GET /tests
tests_select(sid) ==
    /\ IF ~login_required(sid)
       THEN Respond("tests_select", sid, "GET", 302, "login")
       ELSE \E a \in LatestApps(current_user(sid)) :
              LET gate == _require_approved_or_redirect(sid, a)
                  published == {t \in DOMAIN tests : tests[t].is_published}
              IN
              IF gate # "ok" THEN Respond("tests_select", sid, "GET", 302, gate)
              ELSE IF published = {}
              THEN Respond("tests_select", sid, "GET", 302, "no_tests")
              ELSE IF Cardinality(published) = 1
              THEN Respond("tests_select", sid, "GET", 302, "take_test")
              ELSE Respond("tests_select", sid, "GET", 200, "tests_select")
    /\ UNCHANGED <<dbVars, acctVars, testVars, now, outbox, histVars, reqVars>>

\* tests.take_test from "end_key = ..." on: the request of user u, whom the
\* approval gate has let through.  posted[i] lists the values of field q<i>.
take_test_body(route, sid, u, tid, method, posted) ==
    IF tid \notin DOMAIN tests
    THEN /\ RespondFor(route, sid, method, tid, 302, "test_not_found", NoScore)
         /\ UNCHANGED <<sessions, test_attempts, first_deadline>>
    ELSE
    LET t         == tests[tid]
        questions == _normalize_questions(t.questions)
        total     == Len(questions)
        last      == LatestAttempts(u, tid)
        ends_at   == TestEnd(sid, tid)
        minutes   == t.duration_minutes
    IN
    IF ~t.is_published /\ users[u].role # "admin"
    THEN /\ RespondFor(route, sid, method, tid, 404, "not_found", NoScore)
         /\ UNCHANGED <<sessions, test_attempts, first_deadline>>
    ELSE IF last # {}
    THEN /\ \E l \in last :
              RespondFor(route, sid, method, tid, 200, "result",
                         test_attempts[l].score)
         /\ UNCHANGED <<sessions, test_attempts, first_deadline>>
    ELSE IF method = "POST"
    THEN IF ends_at # NoTime /\ now > ends_at
         THEN /\ SetTestEnd(sid, tid, NoTime)
              /\ RespondFor(route, sid, method, tid, 302, "time_up", NoScore)
              /\ UNCHANGED <<test_attempts, first_deadline>>
         ELSE IF \E i \in 1..total : posted[i] = <<>>
         THEN /\ RespondFor(route, sid, method, tid, 200, "answer_all", NoScore)
              /\ UNCHANGED <<sessions, test_attempts, first_deadline>>
         ELSE \E id \in uuid4(AttemptIds, DOMAIN test_attempts) :
                LET score == score_of(questions, posted)
                    row   == [user_id |-> u, test_id |-> tid,
                              started_at |-> now, finished_at |-> now,
                              score |-> score]
                IN /\ test_attempts' =
                        [k \in DOMAIN test_attempts \cup {id} |->
                            IF k = id THEN row ELSE test_attempts[k]]
                   /\ SetTestEnd(sid, tid, NoTime)
                   /\ RespondFor(route, sid, method, tid, 200, "result", score)
                   /\ UNCHANGED first_deadline
    ELSE IF minutes > 0
    THEN /\ SetTestEnd(sid, tid, now + minutes)
         /\ RememberFirstDeadline(sid, tid, now + minutes)
         /\ RespondFor(route, sid, method, tid, 200, "form", NoScore)
         /\ UNCHANGED test_attempts
    ELSE /\ RespondFor(route, sid, method, tid, 200, "form", NoScore)
         /\ UNCHANGED <<sessions, test_attempts, first_deadline>>

\* tests.take_test and tests.tests_start, which calls it
take_test(route, sid, tid, method, posted) ==
    /\ IF ~login_required(sid)
       THEN /\ RespondFor(route, sid, method, tid, 302, "login", NoScore)
            /\ UNCHANGED <<sessions, test_attempts, first_deadline>>
       ELSE \E a \in LatestApps(current_user(sid)) :
              LET gate == _require_approved_or_redirect(sid, a) IN
              IF gate # "ok"
              THEN /\ RespondFor(route, sid, method, tid, 302, gate, NoScore)
                   /\ UNCHANGED <<sessions, test_attempts, first_deadline>>
              ELSE take_test_body(route, sid, current_user(sid), tid, method,
                                  posted)
    /\ UNCHANGED <<dbVars, users, internal_user_logs, tests, now, outbox, boot, reqVars,
                   approved_via>>

(***************************************************************************)
(* Spec: applicants and a commission member at work on a bootstrapped      *)
(* database.                                                               *)
(***************************************************************************)
BootstrappedSchema ==
    [tables |-> AllTables, public_no_col |-> TRUE, idx_app_public_no |-> TRUE,
     public_no_not_null |-> TRUE, triggers |-> AllTriggers, checks |-> AllChecks]

TestIds == {"t1", "t2"}

SessionRow(email, uid) ==
    [user_email |-> email, user_id |-> uid,
     test_end |-> [t \in TestIds |-> NoTime]]

\* a question with one right option, and one with two
Q_single == [type |-> "single", multiple |-> FALSE, correct |-> <<>>,
             correct_index |-> <<1>>]
Q_multi  == [type |-> "multi", multiple |-> FALSE, correct |-> <<1, 0>>,
             correct_index |-> <<>>]

TestRow(published, minutes, questions) ==
    [is_published |-> published, duration_minutes |-> minutes,
     questions |-> questions]

InitBootstrapped ==
    /\ schema = BootstrappedSchema
    /\ seq = setval(1)
    /\ applications = << >>
    /\ commission_logs = << >>
    /\ boot = [runs |-> 1, ok |-> TRUE, first_ok |-> TRUE,
               first |-> Snapshot(BootstrappedSchema, << >>, << >>)]
    /\ internal_user_logs = 0
    /\ test_attempts = << >>
    /\ now = 0
    /\ resp = NoResp
    /\ outbox = 0
    /\ approved_via = << >>
    /\ first_deadline = << >>
    /\ password_resets = << >>
    /\ procs = << >>
    /\ advisory_lock = NoProc

Init ==
    /\ InitBootstrapped
    /\ users = [u \in {"u1", "u2", "c1"} |->
                  IF u = "c1" THEN UserRow("c1@x", "admin", "pw", NoTime, FALSE)
                  ELSE IF u = "u1" THEN UserRow("u1@x", "user", "pw", NoTime, FALSE)
                  ELSE UserRow("u2@x", "user", "pw", NoTime, FALSE)]
    /\ sessions = [b \in {"b0", "b1", "b2", "b3"} |->
                     IF b = "b1" THEN SessionRow("u1@x", "u1")
                     ELSE IF b = "b2" THEN SessionRow("u2@x", "u2")
                     ELSE IF b = "b3" THEN SessionRow("c1@x", "c1")
                     ELSE SessionRow(NoEmail, NoUser)]
    /\ tests = [t \in {"t1"} |-> TestRow(TRUE, 1, <<Q_single, Q_multi>>)]

\* the requests the browsers make
StatusForms  == {<<S_Odobreno, NULL>>, <<S_Otkloneno, S_reason>>,
                 <<S_approved, NULL>>}
DecisionJson == {<<S_Approved_sp, S_empty, FALSE>>, <<S_Approved_sp, S_empty, TRUE>>,
                 <<S_rejected, S_reason, FALSE>>, <<S_rejected, S_empty, FALSE>>,
                 <<S_pending, S_empty, FALSE>>}
LoggedStatuses == {<<NULL, S_Otkloneno>>, <<S_pending, NULL>>,
                   <<S_Odobreno, S_ky_approved>>}
TestRequests == {<<"GET", [i \in 1..2 |-> <<>>]>>,
                 <<"POST", [i \in 1..2 |-> <<1>>]>>}

Next ==
    \/ \E sid \in DOMAIN sessions, m \in {"GET", "POST"} : form(sid, m)
    \/ \E sid \in DOMAIN sessions, a \in AppIds, f \in StatusForms :
         admin_update_app_status(sid, a, f[1], f[2])
    \/ \E sid \in DOMAIN sessions, a \in AppIds, d \in DecisionJson :
         admin_decide(sid, a, d[1], d[2], d[3])
    \/ \E a \in AppIds, st \in LoggedStatuses :
         log_commission_action(a, "c1", "decision", st[1], st[2])
    \/ \E sid \in DOMAIN sessions : tests_select(sid)
    \/ \E sid \in DOMAIN sessions, r \in {"take_test", "tests_start"},
          t \in TestIds, q \in TestRequests :
         take_test(r, sid, t, q[1], q[2])

Spec == Init /\ [][Next]_vars

(***************************************************************************)
(* admin.py: the commission's test editor.                                 *)
(***************************************************************************)
\* admin.admin_tests_publish
admin_tests_publish(sid, tid, state) ==
    /\ IF ~admin_required(sid)
       THEN /\ RespondFor("admin_tests_publish", sid, "POST", tid, 302,
                          "admins_only", NoScore)
            /\ UNCHANGED tests
       ELSE /\ tests' = IF tid \in DOMAIN tests
                        THEN [tests EXCEPT ![tid].is_published = state]
                        ELSE tests
            /\ RespondFor("admin_tests_publish", sid, "POST", tid, 302,
                          "admin_tests", NoScore)
    /\ UNCHANGED <<dbVars, acctVars, test_attempts, now, outbox, histVars, reqVars>>

\* the clock
Tick ==
    /\ now < MaxTime
    /\ now' = now + 1
    /\ resp' = NoResp
    /\ UNCHANGED <<dbVars, acctVars, testVars, outbox, histVars, reqVars>>

(***************************************************************************)
(* SpecTakeTest: an applicant the approval gate has let through takes the  *)
(* tests while the clock runs and the commission publishes and withdraws   *)
(* them.                                                                   *)
(***************************************************************************)
\* tests.take_test for a request that passed _require_approved_or_redirect
take_test_admitted(route, sid, tid, method, posted) ==
    /\ login_required(sid)
    /\ current_user(sid) # NoUser
    /\ take_test_body(route, sid, current_user(sid), tid, method, posted)
    /\ UNCHANGED <<dbVars, users, internal_user_logs, tests, now, outbox, boot, reqVars,
                   approved_via>>

InitTakeTest ==
    /\ InitBootstrapped
    /\ users = [u \in {"u1", "c1"} |->
                  IF u = "c1" THEN UserRow("c1@x", "admin", "pw", NoTime, FALSE)
                  ELSE UserRow("u1@x", "user", "pw", NoTime, FALSE)]
    /\ sessions = [b \in {"b1", "b3"} |->
                     IF b = "b1" THEN SessionRow("u1@x", "u1")
                     ELSE SessionRow("c1@x", "c1")]
    /\ tests = [t \in TestIds |->
                  IF t = "t1" THEN TestRow(TRUE, 1, <<Q_single, Q_multi>>)
                  ELSE TestRow(TRUE, 0, <<Q_single>>)]

\* what a browser can post under q1 and q2
PostedValues == {<<>>, <<1>>, <<0, 1>>}
AnswerForms  == {<<"GET", [i \in 1..2 |-> <<>>]>>} \cup
                {<<"POST", p>> : p \in [1..2 -> PostedValues]}

NextTakeTest ==
    \/ \E r \in {"take_test", "tests_start"}, t \in TestIds, q \in AnswerForms :
         take_test_admitted(r, "b1", t, q[1], q[2])
    \/ \E t \in TestIds, st \in BOOLEAN : admin_tests_publish("b3", t, st)
    \/ Tick

SpecTakeTest == InitTakeTest /\ [][NextTakeTest]_vars

(***************************************************************************)
(* auth.py: login and logout.                                              *)
(***************************************************************************)
\* auth.login
login(sid, method, email, password) ==
    /\ LET known == get_user_by_email(sessions[sid].user_email)
           user  == get_user_by_email(email)
       IN
       IF method = "GET"
       THEN IF login_required(sid) /\ known # NoUser
            THEN /\ UNCHANGED sessions
                 /\ Respond("login", sid, method, 302,
                            IF users[known].role = "admin" THEN "admin"
                            ELSE "index")
            ELSE /\ sessions' =
                      IF login_required(sid)
                      THEN [sessions EXCEPT ![sid] = SessionRow(NoEmail, NoUser)]
                      ELSE sessions
                 /\ Respond("login", sid, method, 200, "login")
       ELSE IF user = NoUser
               \/ ~check_password_hash(users[user].password_hash, password)
       THEN /\ UNCHANGED sessions
            /\ Respond("login", sid, method, 200, "bad_credentials")
       ELSE IF ~users[user].is_verified
       THEN /\ UNCHANGED sessions
            /\ Respond("login", sid, method, 200, "not_verified")
       ELSE IF ~users[user].is_active
       THEN /\ UNCHANGED sessions
            /\ Respond("login", sid, method, 200, "deactivated")
       ELSE IF users[user].access_expires_at # NoTime
               /\ users[user].access_expires_at < now
       THEN /\ UNCHANGED sessions
            /\ Respond("login", sid, method, 200, "expired")
       ELSE /\ sessions' = [sessions EXCEPT ![sid].user_email = email,
                                            ![sid].user_id = user]
            /\ Respond("login", sid, method, 302,
                       IF users[user].must_change_password
                       THEN "force_change_credentials"
                       ELSE IF users[user].role = "provisioner" THEN "dashboard"
                       ELSE IF users[user].role = "admin" THEN "admin"
                       ELSE "index")
    /\ UNCHANGED <<dbVars, users, internal_user_logs, testVars, now, outbox,
                   histVars, reqVars>>

\* auth.logout
logout(sid) ==
    /\ sessions' = [sessions EXCEPT ![sid] = SessionRow(NoEmail, NoUser)]
    /\ Respond("logout", sid, "POST", 302, "login")
    /\ UNCHANGED <<dbVars, users, internal_user_logs, testVars, now, outbox,
                   histVars, reqVars>>

(***************************************************************************)
(* provisioning.py: the provisioner's endpoints.                           *)
(***************************************************************************)
\* provisioning._parse_dt_local: the time a field holds, NoTime standing
\* for None
_parse_dt_local(v) == IF v.raw = "date" THEN v.at ELSE NoTime

\* provisioning._log
_log ==
    /\ internal_user_logs < MaxLogs
    /\ internal_user_logs' = internal_user_logs + 1

Forbidden(route, sid, method, arg) ==
    /\ RespondFor(route, sid, method, arg, 403, "forbidden", NoScore)
    /\ UNCHANGED <<users, internal_user_logs>>

\* dashboard, commission_logs_page, commission_logs_csv and
\* commission_logs_ndjson only read
prov_read(route, sid) ==
    /\ IF ~provisioner_required(sid)
       THEN Forbidden(route, sid, "GET", "none")
       ELSE /\ Respond(route, sid, "GET", 200, route)
            /\ UNCHANGED <<users, internal_user_logs>>
    /\ UNCHANGED <<dbVars, sessions, testVars, now, outbox, histVars, reqVars>>

NewUserIds == {"n1"}

\* provisioning.create_internal_user; filled says that full_name, inn and
\* password came with the form
create_internal_user(sid, filled, email, same_password, access_raw) ==
    /\ LET access_until == _parse_dt_local(access_raw) IN
       IF ~provisioner_required(sid)
       THEN Forbidden("create_internal_user", sid, "POST", "none")
       ELSE IF ~filled \/ email = NoEmail \/ access_raw.raw = "empty"
       THEN /\ Respond("create_internal_user", sid, "POST", 302, "fill_required")
            /\ UNCHANGED <<users, internal_user_logs>>
       ELSE IF ~same_password
       THEN /\ Respond("create_internal_user", sid, "POST", 302, "passwords_differ")
            /\ UNCHANGED <<users, internal_user_logs>>
       ELSE IF access_until = NoTime
       THEN /\ Respond("create_internal_user", sid, "POST", 302, "bad_date")
            /\ UNCHANGED <<users, internal_user_logs>>
       ELSE IF get_user_by_email(email) # NoUser
       THEN /\ Respond("create_internal_user", sid, "POST", 302, "email_taken")
            /\ UNCHANGED <<users, internal_user_logs>>
       ELSE \E uid \in uuid4(NewUserIds, DOMAIN users) :
              /\ users' = [u \in DOMAIN users \cup {uid} |->
                             IF u = uid
                             THEN UserRow(email, "admin", "pw", access_until, TRUE)
                             ELSE users[u]]
              /\ _log
              /\ RespondFor("create_internal_user", sid, "POST", uid, 302,
                            "created", NoScore)
    /\ UNCHANGED <<dbVars, sessions, testVars, now, outbox, histVars, reqVars>>

\* provisioning.extend_access
extend_access(sid, user_id, access_raw) ==
    /\ LET new_dt == _parse_dt_local(access_raw) IN
       IF ~provisioner_required(sid)
       THEN Forbidden("extend_access", sid, "POST", user_id)
       ELSE IF new_dt = NoTime
       THEN /\ RespondFor("extend_access", sid, "POST", user_id, 400,
                          "bad_date", NoScore)
            /\ UNCHANGED <<users, internal_user_logs>>
       ELSE IF user_id \notin DOMAIN users \/ ~users[user_id].is_active
       THEN /\ RespondFor("extend_access", sid, "POST", user_id, 404,
                          "not_found_or_inactive", NoScore)
            /\ UNCHANGED <<users, internal_user_logs>>
       ELSE /\ users' = [users EXCEPT ![user_id].access_expires_at = new_dt]
            /\ _log
            /\ RespondFor("extend_access", sid, "POST", user_id, 200, "ok",
                          NoScore)
    /\ UNCHANGED <<dbVars, sessions, testVars, now, outbox, histVars, reqVars>>

\* provisioning.update_user
update_user(sid, user_id, full_name, access_raw) ==
    /\ LET access == _parse_dt_local(access_raw) IN
       IF ~provisioner_required(sid)
       THEN Forbidden("update_user", sid, "POST", user_id)
       ELSE IF user_id \notin DOMAIN users \/ users[user_id].role # "admin"
       THEN /\ RespondFor("update_user", sid, "POST", user_id, 404,
                          "not_found", NoScore)
            /\ UNCHANGED <<users, internal_user_logs>>
       ELSE /\ users' = [users EXCEPT
                           ![user_id].full_name =
                               IF full_name = "" THEN @ ELSE full_name,
                           ![user_id].access_expires_at =
                               IF access = NoTime THEN @ ELSE access]
            /\ _log
            /\ RespondFor("update_user", sid, "POST", user_id, 200, "ok",
                          NoScore)
    /\ UNCHANGED <<dbVars, sessions, testVars, now, outbox, histVars, reqVars>>

\* provisioning.delete_user
delete_user(sid, user_id) ==
    /\ IF ~provisioner_required(sid)
       THEN Forbidden("delete_user", sid, "POST", user_id)
       ELSE IF user_id \notin DOMAIN users
       THEN /\ RespondFor("delete_user", sid, "POST", user_id, 404,
                          "not_found", NoScore)
            /\ UNCHANGED <<users, internal_user_logs>>
       ELSE /\ users' = [users EXCEPT ![user_id].is_active = FALSE]
            /\ _log
            /\ RespondFor("delete_user", sid, "POST", user_id, 200, "ok",
                          NoScore)
    /\ UNCHANGED <<dbVars, sessions, testVars, now, outbox, histVars, reqVars>>

(***************************************************************************)
(* SpecProv: a provisioner made by create_provisioner.py creates, extends  *)
(* and deactivates a commission member, who logs in and decides on an      *)
(* application and publishes a test, while the clock runs.  The handlers  *)
(* of routes/provisioning.py are modelled as mounted under their decorator *)
(* (create_app registers the auth, main, admin and tests blueprints only). *)
(***************************************************************************)
\* create_provisioner.py: the row it inserts, --access-until given or not
ProvisionerRow(exp) == UserRow("p1@x", "provisioner", "pw", exp, TRUE)

InitProv ==
    /\ schema = BootstrappedSchema
    /\ seq = advance(setval(1))
    /\ applications = [a \in {"a1"} |->
                         [user_id |-> "u1", commission_status |-> NULL,
                          commission_comment |-> NULL,
                          public_no |-> nextval(setval(1)), created_at |-> 0]]
    /\ commission_logs = << >>
    /\ boot = [runs |-> 1, ok |-> TRUE, first_ok |-> TRUE,
               first |-> Snapshot(BootstrappedSchema, << >>, << >>)]
    /\ \E exp \in {NoTime, 1} :
         users = [u \in {"p1", "u1"} |->
                    IF u = "p1" THEN ProvisionerRow(exp)
                    ELSE UserRow("u1@x", "user", "pw", NoTime, FALSE)]
    /\ sessions = [b \in {"b1", "b2"} |-> SessionRow(NoEmail, NoUser)]
    /\ internal_user_logs = 0
    /\ tests = [t \in {"t1"} |-> TestRow(FALSE, 1, <<Q_single>>)]
    /\ test_attempts = << >>
    /\ now = 0
    /\ resp = NoResp
    /\ outbox = 0
    /\ approved_via = << >>
    /\ first_deadline = << >>
    /\ password_resets = << >>
    /\ procs = << >>
    /\ advisory_lock = NoProc

\* the requests made to the provisioning and commission endpoints
Logins == {<<"b1", "POST", "p1@x", "pw">>, <<"b1", "POST", "p1@x", "bad">>,
           <<"b2", "POST", "n1@x", "pw">>, <<"b2", "GET", NoEmail, "">>}
D_empty == [raw |-> "empty", at |-> NoTime]
D_bad   == [raw |-> "bad", at |-> NoTime]
D_date  == [raw |-> "date", at |-> 1]
CreateForms == {<<TRUE, "n1@x", TRUE, D_date>>, <<FALSE, "n1@x", TRUE, D_date>>,
                <<TRUE, "n1@x", FALSE, D_date>>, <<TRUE, "p1@x", TRUE, D_date>>,
                <<TRUE, "n1@x", TRUE, D_bad>>, <<TRUE, "n1@x", TRUE, D_empty>>}
UpdateForms == {<<"name2", D_empty>>, <<"", D_date>>, <<"", D_bad>>}
ReadRoutes == {"dashboard", "commission_logs_page", "commission_logs_csv",
               "commission_logs_ndjson"}
Targets == {"p1", "n1"}

NextProv ==
    \/ \E l \in Logins : login(l[1], l[2], l[3], l[4])
    \/ \E sid \in DOMAIN sessions : logout(sid)
    \/ \E sid \in DOMAIN sessions, r \in ReadRoutes : prov_read(r, sid)
    \/ \E sid \in DOMAIN sessions, f \in CreateForms :
         create_internal_user(sid, f[1], f[2], f[3], f[4])
    \/ \E sid \in DOMAIN sessions, u \in Targets, d \in {D_date, D_bad} :
         extend_access(sid, u, d)
    \/ \E sid \in DOMAIN sessions, u \in Targets, f \in UpdateForms :
         update_user(sid, u, f[1], f[2])
    \/ \E sid \in DOMAIN sessions, u \in Targets : delete_user(sid, u)
    \/ \E sid \in DOMAIN sessions, d \in DecisionJson :
         admin_decide(sid, "a1", d[1], d[2], d[3])
    \/ \E sid \in DOMAIN sessions, st \in BOOLEAN :
         admin_tests_publish(sid, "t1", st)
    \/ Tick

SpecProv == InitProv /\ [][NextProv]_vars

\* C2: on a bootstrapped database every applications.commission_status and
\* every commission_logs.old_status and new_status is 'approved',
\* 'rejected' or NULL, and a write that PostgreSQL rejects, because the
\* status it would store is none of these, stores nothing.
C2_OnlyStatusCodes ==
    /\ [](/\ \A a \in DOMAIN applications :
               applications[a].commission_status \in {S_approved, S_rejected, NULL}
          /\ \A l \in DOMAIN commission_logs :
               /\ commission_logs[l].old_status \in {S_approved, S_rejected, NULL}
               /\ commission_logs[l].new_status \in {S_approved, S_rejected, NULL})
    /\ [][resp'.code = 500 =>
            /\ applications' = applications
            /\ commission_logs' = commission_logs]_vars

\* a decision whose label the catalogue had translated was refused, an
\* application waits undecided, and a normalised one is stored
C2_Witness ==
    /\ resp.route = "admin_decide"
    /\ resp.code = 500
    /\ resp.arg \in DOMAIN applications
    /\ applications[resp.arg].commission_status = NULL
    /\ \E a \in DOMAIN applications : applications[a].commission_status = S_rejected
    /\ \E l \in DOMAIN commission_logs : commission_logs[l].new_status = S_rejected

\* C3: once the commission has approved a user's application, through
\* admin_decide with 'approved' or admin_update_app_status with the Russian
\* label, _user_has_approved is true of that application and the user's GET
\* of a published test he has not taken serves the form.
C3_ApprovedUserIsServed ==
    \A a \in DOMAIN approved_via :
       /\ a \in LatestApps(applications[a].user_id) => _user_has_approved(a)
       /\ ( /\ resp.route \in {"take_test", "tests_start"}
            /\ resp.method = "GET"
            /\ sessions[resp.sid].user_id = applications[a].user_id
            /\ resp.arg \in DOMAIN tests
            /\ tests[resp.arg].is_published
            /\ LatestAttempts(applications[a].user_id, resp.arg) = {} )
          => (resp.code = 200 /\ resp.info = "form")

\* C4: a user whose latest application is not approved (or who has none) is
\* redirected by every GET or POST to /tests, /tests/<id> and
\* /tests/start/<id>, and the request leaves test_attempts as it was.
C4_UnapprovedUserRedirected ==
    [][ ( /\ resp'.route \in {"tests_select", "take_test", "tests_start"}
          /\ sessions[resp'.sid].user_id \in DOMAIN users
          /\ \A a \in LatestApps(sessions[resp'.sid].user_id) :
                a = NoApp \/ applications[a].commission_status # S_approved )
        => (resp'.code = 302 /\ test_attempts' = test_attempts) ]_vars

\* a user whose application was rejected posted his answers and was sent
\* back to his applications
C4_Witness ==
    /\ resp.route = "take_test"
    /\ resp.method = "POST"
    /\ resp.arg \in DOMAIN tests
    /\ resp.code = 302
    /\ resp.info = "need_approval"
    /\ \E a \in DOMAIN applications :
         /\ applications[a].user_id = sessions[resp.sid].user_id
         /\ applications[a].commission_status = S_rejected

\* C5: a decision is final: once commission_status is not NULL, no step
\* changes the status or the comment, admin_decide on that application
\* answers 409 'already_decided' whenever the request gets past the role and
\* input checks, admin_update_app_status redirects with an error, and no
\* e-mail is sent.
C5_DecisionIsFinal ==
    [][ \A a \in DOMAIN applications :
          applications[a].commission_status # NULL =>
            /\ a \in DOMAIN applications'
            /\ applications'[a].commission_status = applications[a].commission_status
            /\ applications'[a].commission_comment = applications[a].commission_comment
            /\ (resp'.route = "admin_decide" /\ resp'.arg = a) =>
                  /\ outbox' = outbox
                  /\ resp'.info \in {"forbidden", "bad_status", "need_reason",
                                      "already_decided"}
                  /\ resp'.info = "already_decided" => resp'.code = 409
                  /\ resp'.info = "forbidden" =>
                        ~admin_required(resp'.sid)
            /\ (resp'.route = "admin_update_app_status" /\ resp'.arg = a) =>
                  /\ outbox' = outbox
                  /\ resp'.code = 302
                  /\ resp'.info \in {"admins_only", "bad_status", "already_decided"}
                  /\ resp'.info = "admins_only" => ~admin_required(resp'.sid)
      ]_vars

\* an approved application was put to a second decision, which was answered
\* 409; only the first decision was mailed
C5_Witness ==
    /\ resp.route = "admin_decide"
    /\ resp.code = 409
    /\ resp.arg \in DOMAIN applications
    /\ applications[resp.arg].commission_status = S_approved
    /\ outbox = 1

\* C6: requests to POST /form made one after another leave at most one
\* application per user: the POST of a user who has one inserts nothing and
\* redirects with the error that an application was already submitted.
C6_OneApplicationPerUser ==
    /\ [](\A u \in DOMAIN users :
            Cardinality({a \in DOMAIN applications :
                            applications[a].user_id = u}) <= 1)
    /\ [][ ( /\ resp'.route = "form"
             /\ resp'.method = "POST"
             /\ \E a \in DOMAIN applications :
                  applications[a].user_id = sessions[resp'.sid].user_id )
           => ( /\ applications' = applications
                /\ resp'.code = 302
                /\ resp'.info = "already_submitted" ) ]_vars

\* both applicants have an application and one of them has posted the form
\* again
C6_Witness ==
    /\ resp.route = "form"
    /\ resp.method = "POST"
    /\ resp.info = "already_submitted"
    /\ Cardinality(DOMAIN applications) = 2

C9_ProvisionerOnly ==
    [][ resp'.route \in ReadRoutes \cup {"create_internal_user", "extend_access",
                                        "update_user", "delete_user"}
        => LET email == sessions[resp'.sid].user_email
               us    == {u \in DOMAIN users : users[u].email = email}
               allowed == /\ email # NoEmail
                          /\ \E u \in us :
                               /\ users[u].role = "provisioner"
                               /\ users[u].is_active
                               /\ \/ users[u].access_expires_at = NoTime
                                  \/ users[u].access_expires_at >= now
           IN /\ allowed <=> resp'.code # 403
              /\ ~allowed => /\ users' = users
                             /\ internal_user_logs' = internal_user_logs ]_vars

\* a provisioner whose access has run out asked to create a commission
\* member and was answered 403
C9_Witness ==
    /\ resp.route = "create_internal_user"
    /\ resp.code = 403
    /\ sessions[resp.sid].user_id \in DOMAIN users
    /\ users[sessions[resp.sid].user_id].role = "provisioner"
    /\ users[sessions[resp.sid].user_id].is_active
    /\ users[sessions[resp.sid].user_id].access_expires_at # NoTime
    /\ users[sessions[resp.sid].user_id].access_expires_at < now

\* C10: once an admin's is_active is false or his access_expires_at has
\* passed, no request of his to an admin_required endpoint or to
\* admin_decide changes an application or a test, whatever session he holds.
C10_LapsedAdminChangesNothing ==
    [][ ( /\ resp'.route \in {"admin_decide", "admin_update_app_status",
                              "admin_tests_publish", "admin_tests_delete"}
          /\ sessions[resp'.sid].user_id \in DOMAIN users
          /\ LET u == users[sessions[resp'.sid].user_id] IN
             /\ u.role = "admin"
             /\ \/ ~u.is_active
                \/ u.access_expires_at # NoTime /\ u.access_expires_at < now )
        => (applications' = applications /\ tests' = tests) ]_vars

(***************************************************************************)
(* auth.py: registration and the forced change of credentials.             *)
(***************************************************************************)
\* the users row register inserts
RegisteredAsAdmin(email, pw) == UserRow(email, "admin", pw, NoTime, FALSE)

RegisteredRow(email, pw) == UserRow(email, "user", pw, NoTime, FALSE)

RegisteredIds == {"r1"}

\* auth.admin_register
admin_register(sid, method) ==
    /\ Respond("admin_register", sid, method, 403, "forbidden")
    /\ UNCHANGED <<dbVars, acctVars, testVars, now, outbox, histVars, reqVars>>

\* auth.register; f is the form: filled says that full_name, password and
\* password2 came with it, wellformed that the e-mail holds '@' and '.',
\* long that the password has 12 characters or more
register(sid, method, f) ==
    /\ IF method = "GET"
       THEN /\ Respond("register", sid, method, 200, "register")
            /\ UNCHANGED <<users, sessions>>
       ELSE IF ~f.filled \/ f.email = NoEmail
       THEN /\ Respond("register", sid, method, 200, "fill_required")
            /\ UNCHANGED <<users, sessions>>
       ELSE IF ~f.wellformed
       THEN /\ Respond("register", sid, method, 200, "bad_email")
            /\ UNCHANGED <<users, sessions>>
       ELSE IF ~f.long
       THEN /\ Respond("register", sid, method, 200, "short_password")
            /\ UNCHANGED <<users, sessions>>
       ELSE IF f.password # f.password2
       THEN /\ Respond("register", sid, method, 200, "passwords_differ")
            /\ UNCHANGED <<users, sessions>>
       ELSE IF get_user_by_email(f.email) # NoUser
       THEN /\ Respond("register", sid, method, 200, "email_taken")
            /\ UNCHANGED <<users, sessions>>
       ELSE \E uid \in uuid4(RegisteredIds, DOMAIN users) :
              /\ users' = [u \in DOMAIN users \cup {uid} |->
                             IF u = uid THEN RegisteredRow(f.email, f.password)
                             ELSE users[u]]
              /\ sessions' = [sessions EXCEPT ![sid].user_email = f.email,
                                              ![sid].user_id = uid]
              /\ RespondFor("register", sid, method, uid, 302, "index", NoScore)
    /\ UNCHANGED <<dbVars, internal_user_logs, testVars, now, outbox, histVars,
                   reqVars>>

\* auth.force_change_credentials
force_change_credentials(sid, method, f) ==
    /\ LET u     == get_user_by_email(sessions[sid].user_email)
           other == get_user_by_email(f.email)
       IN
       IF u = NoUser
       THEN /\ sessions' = [sessions EXCEPT ![sid] = SessionRow(NoEmail, NoUser)]
            /\ Respond("force_change_credentials", sid, method, 302, "login")
            /\ UNCHANGED users
       ELSE IF method = "GET"
       THEN /\ RespondFor("force_change_credentials", sid, method, u, 200,
                          "force_change", NoScore)
            /\ UNCHANGED <<users, sessions>>
       ELSE IF f.email = NoEmail \/ ~f.wellformed
       THEN /\ RespondFor("force_change_credentials", sid, method, u, 200,
                          "bad_email", NoScore)
            /\ UNCHANGED <<users, sessions>>
       ELSE IF ~f.long
       THEN /\ RespondFor("force_change_credentials", sid, method, u, 200,
                          "short_password", NoScore)
            /\ UNCHANGED <<users, sessions>>
       ELSE IF f.password # f.password2
       THEN /\ RespondFor("force_change_credentials", sid, method, u, 200,
                          "passwords_differ", NoScore)
            /\ UNCHANGED <<users, sessions>>
       ELSE IF other # NoUser /\ other # u
       THEN /\ RespondFor("force_change_credentials", sid, method, u, 200,
                          "email_taken", NoScore)
            /\ UNCHANGED <<users, sessions>>
       ELSE /\ users' = [users EXCEPT
                           ![u].email = f.email,
                           ![u].password_hash = generate_password_hash(f.password),
                           ![u].must_change_password = FALSE]
            /\ sessions' = [sessions EXCEPT ![sid].user_email = f.email]
            /\ RespondFor("force_change_credentials", sid, method, u, 302,
                          IF users[u].role = "provisioner" THEN "dashboard"
                          ELSE IF users[u].role = "admin" THEN "admin"
                          ELSE "index", NoScore)
    /\ UNCHANGED <<dbVars, internal_user_logs, testVars, now, outbox, histVars,
                   reqVars>>

(***************************************************************************)
(* SpecAuth: the accounts.  A provisioner made by create_provisioner.py,   *)
(* an applicant with an application, and a user whose e-mail was never     *)
(* confirmed (is_verified FALSE, a row of the time before register set it) *)
(* exist; nobody is a commission member yet.  Visitors register and log    *)
(* in, the provisioner creates and deactivates a commission member, who    *)
(* logs in, changes credentials, decides and publishes, while the clock    *)
(* runs.                                                                   *)
(***************************************************************************)
InitAuth ==
    /\ schema = BootstrappedSchema
    /\ seq = advance(setval(1))
    /\ applications = [a \in {"a1"} |->
                         [user_id |-> "u1", commission_status |-> NULL,
                          commission_comment |-> NULL,
                          public_no |-> nextval(setval(1)), created_at |-> 0]]
    /\ commission_logs = << >>
    /\ boot = [runs |-> 1, ok |-> TRUE, first_ok |-> TRUE,
               first |-> Snapshot(BootstrappedSchema, << >>, << >>)]
    /\ users = [u \in {"p1", "u1", "v1"} |->
                  IF u = "p1" THEN ProvisionerRow(NoTime)
                  ELSE IF u = "u1" THEN UserRow("u1@x", "user", "pw", NoTime, FALSE)
                  ELSE [UserRow("v1@x", "user", "pw", NoTime, FALSE)
                          EXCEPT !.is_verified = FALSE]]
    /\ sessions = [b \in {"b1", "b2"} |-> SessionRow(NoEmail, NoUser)]
    /\ internal_user_logs = 0
    /\ tests = [t \in {"t1"} |-> TestRow(FALSE, 1, <<Q_single>>)]
    /\ test_attempts = << >>
    /\ now = 0
    /\ resp = NoResp
    /\ outbox = 0
    /\ approved_via = << >>
    /\ first_deadline = << >>
    /\ password_resets = << >>
    /\ procs = << >>
    /\ advisory_lock = NoProc

\* request.form of register and force_change_credentials
CredentialForms ==
    {[filled |-> TRUE, email |-> e[1], wellformed |-> e[2], long |-> e[3],
      password |-> "pw", password2 |-> e[4]] :
       e \in {<<"r1@x", TRUE, TRUE, "pw">>, <<"n1@x", TRUE, TRUE, "pw">>,
              <<"u1@x", TRUE, TRUE, "pw">>, <<"r1@x", FALSE, TRUE, "pw">>,
              <<"r1@x", TRUE, FALSE, "pw">>, <<"r1@x", TRUE, TRUE, "other">>}}

\* request.form of login
LoginForms ==
    {<<"b1", "p1@x", "pw">>, <<"b2", "n1@x", "pw">>, <<"b2", "n1@x", "bad">>,
     <<"b2", "v1@x", "pw">>, <<"b2", "zz@x", "pw">>}

NextAuth ==
    \/ \E l \in LoginForms : login(l[1], "POST", l[2], l[3])
    \/ login("b2", "GET", NoEmail, "")
    \/ logout("b2")
    \/ \E m \in {"GET", "POST"}, f \in CredentialForms : register("b2", m, f)
    \/ \E sid \in DOMAIN sessions, m \in {"GET", "POST"} : admin_register(sid, m)
    \/ \E m \in {"GET", "POST"}, f \in CredentialForms :
         force_change_credentials("b2", m, f)
    \/ \E sid \in DOMAIN sessions, d \in {D_date, D_bad} :
         create_internal_user(sid, TRUE, "n1@x", TRUE, d)
    \/ \E sid \in DOMAIN sessions : delete_user(sid, "n1")
    \/ \E sid \in DOMAIN sessions :
         admin_decide(sid, "a1", S_Approved_sp, S_empty, FALSE)
    \/ \E sid \in DOMAIN sessions : admin_tests_publish(sid, "t1", TRUE)
    \/ Tick

SpecAuth == InitAuth /\ [][NextAuth]_vars

\* C11: while a user's must_change_password is TRUE no request of that user
\* to an admin-guarded endpoint changes an application or a test, and the
\* flag of a user becomes FALSE only in a force_change_credentials POST of
\* that user that succeeds.
C11_MustChangeBlocksAdmin ==
    [][/\ (/\ resp'.route \in {"admin_decide", "admin_tests_publish"}
           /\ current_user(resp'.sid) # NoUser
           /\ users[current_user(resp'.sid)].must_change_password)
          => UNCHANGED <<applications, tests>>
       /\ \A u \in DOMAIN users :
            (users[u].must_change_password /\ ~users'[u].must_change_password)
            => /\ resp'.route = "force_change_credentials"
               /\ resp'.method = "POST"
               /\ resp'.code = 302
               /\ resp'.arg = u]_vars

\* C14: a login POST establishes a session only if the e-mail resolves to a
\* user, the password matches its hash, is_verified and is_active are true
\* and access_expires_at is NULL or not in the past; a login that fails (is
\* not answered by the redirect of a successful login) leaves the session
\* unchanged.
C14_LoginOnlyForValidAccount ==
    [][\A sid \in DOMAIN sessions,
          email \in {"p1@x", "n1@x", "v1@x", "zz@x"}, pw \in {"pw", "bad"} :
         login(sid, "POST", email, pw) =>
           LET u  == get_user_by_email(email)
               ok == /\ u # NoUser
                     /\ users[u].password_hash = generate_password_hash(pw)
                     /\ users[u].is_verified
                     /\ users[u].is_active
                     /\ (users[u].access_expires_at = NoTime
                         \/ users[u].access_expires_at >= now)
           IN /\ (resp'.code = 302 \/ sessions' # sessions) => ok
              /\ ok => /\ sessions'[sid].user_email = email
                       /\ sessions'[sid].user_id = u
              /\ ~ok => (sessions' = sessions /\ resp'.code = 200)]_vars

\* a login was refused (unconfirmed, deactivated or expired account) in a
\* browser that holds the session of an earlier login, which it keeps
C14_Witness ==
    /\ resp.route = "login"
    /\ resp.method = "POST"
    /\ resp.info \in {"not_verified", "deactivated", "expired"}
    /\ sessions[resp.sid].user_email = "n1@x"

\* C15: no user is a commission member at first, and every step that adds
\* one is a create_internal_user of a valid provisioner; register adds
\* users of role 'user' only, admin_register answers 403 and adds nothing,
\* no request adds a provisioner or changes the role of a user.
C15_AdminsOnlyFromProvisioning ==
    /\ [](\A u \in DOMAIN users : users[u].role = "admin" => u \in NewUserIds)
    /\ [][/\ \A u \in DOMAIN users :
               u \in DOMAIN users' /\ users'[u].role = users[u].role
          /\ \A u \in DOMAIN users' \ DOMAIN users :
               /\ users'[u].role \in {"user", "admin"}
               /\ users'[u].role = "admin" =>
                    /\ resp'.route = "create_internal_user"
                    /\ provisioner_required(resp'.sid)
               /\ resp'.route = "register" => users'[u].role = "user"
          /\ resp'.route = "admin_register" =>
               (resp'.code = 403 /\ users' = users)]_vars

\* a visitor has registered, the provisioner has created a commission
\* member, and a request to /admin/register was just refused
C15_Witness ==
    /\ \E u \in RegisteredIds :
         u \in DOMAIN users /\ users[u].role = "user"
    /\ \E u \in NewUserIds :
         u \in DOMAIN users /\ users[u].role = "admin"
    /\ resp.route = "admin_register"
    /\ resp.code = 403

(***************************************************************************)
(* auth.py: the password-reset link.                                       *)
(***************************************************************************)
\* timedelta(hours=2): where links are issued the clock counts two hours
ResetLifetime == 1

\* a check of the link that only looks whether the token is known
link_unknown(token) == token \notin DOMAIN password_resets

\* "if (not row) or row['used'] or (row['expires_at'] < _utc_now())"
link_invalid(token) ==
    \/ token \notin DOMAIN password_resets
    \/ password_resets[token].used
    \/ password_resets[token].expires_at < now

\* auth.forgot; the mail that carries the link is not counted in outbox
forgot(sid, method, email) ==
    /\ LET u == get_user_by_email(email) IN
       IF method = "GET"
       THEN /\ Respond("forgot", sid, method, 200, "auth_forgot")
            /\ UNCHANGED password_resets
       ELSE IF u = NoUser
       THEN /\ Respond("forgot", sid, method, 302, "forgot")
            /\ UNCHANGED password_resets
       ELSE \E token \in uuid4({"k1", "k2"}, DOMAIN password_resets) :
              /\ password_resets' =
                   [t \in DOMAIN password_resets \cup {token} |->
                      IF t = token
                      THEN [user_id |-> u, expires_at |-> now + ResetLifetime,
                            used |-> FALSE]
                      ELSE password_resets[t]]
              /\ RespondFor("forgot", sid, method, token, 302, "forgot", NoScore)
    /\ UNCHANGED <<dbVars, acctVars, testVars, now, outbox, histVars, procs,
                   advisory_lock>>

\* auth.reset; f is the form: long says that the password has 12
\* characters or more
reset(sid, token, method, f) ==
    /\ IF link_invalid(token)
       THEN /\ RespondFor("reset", sid, method, token, 302, "invalid_link", NoScore)
            /\ UNCHANGED <<users, password_resets>>
       ELSE IF method = "GET"
       THEN /\ RespondFor("reset", sid, method, token, 200, "auth_reset", NoScore)
            /\ UNCHANGED <<users, password_resets>>
       ELSE IF ~f.long
       THEN /\ RespondFor("reset", sid, method, token, 302, "short_password", NoScore)
            /\ UNCHANGED <<users, password_resets>>
       ELSE IF f.password # f.password2
       THEN /\ RespondFor("reset", sid, method, token, 302, "passwords_differ", NoScore)
            /\ UNCHANGED <<users, password_resets>>
       ELSE /\ users' = [users EXCEPT
                           ![password_resets[token].user_id].password_hash =
                              generate_password_hash(f.password)]
            /\ password_resets' = [password_resets EXCEPT ![token].used = TRUE]
            /\ RespondFor("reset", sid, method, token, 302, "password_updated", NoScore)
    /\ UNCHANGED <<dbVars, sessions, internal_user_logs, testVars, now, outbox,
                   histVars, procs, advisory_lock>>

(***************************************************************************)
(* SpecReset: an applicant and a commission member ask for reset links     *)
(* and follow them, one request after the other, while the clock runs.     *)
(***************************************************************************)
NextReset ==
    \/ \E m \in {"GET", "POST"}, e \in {"u1@x", "c1@x", "zz@x"} :
         forgot("b1", m, e)
    \/ \E token \in {"k0", "k1", "k2"}, m \in {"GET", "POST"},
          f \in {[long |-> TRUE, password |-> "new1", password2 |-> "new1"],
                 [long |-> TRUE, password |-> "new2", password2 |-> "new2"],
                 [long |-> TRUE, password |-> "new1", password2 |-> "new2"],
                 [long |-> FALSE, password |-> "new1", password2 |-> "new1"]} :
         reset("b1", token, m, f)
    \/ Tick

SpecReset == InitTakeTest /\ [][NextReset]_vars

\* C12: a reset link is good once and for two hours.  A request to
\* /reset/<token> changes a password_hash or a password_resets row only if
\* it is a POST whose token is known, unused and not expired, and then it
\* marks the token used and changes the hash of the token's user only; a
\* token once used stays used, so it changes a password at most once; a
\* request with an unknown, used or expired token changes nothing; nothing
\* but /reset changes a password_hash.
C12_ResetLinkSingleUse ==
    [][/\ resp'.route = "reset" =>
            /\ (users' # users \/ password_resets' # password_resets) =>
                 /\ resp'.method = "POST"
                 /\ resp'.arg \in DOMAIN password_resets
                 /\ ~password_resets[resp'.arg].used
                 /\ password_resets[resp'.arg].expires_at >= now
                 /\ password_resets'[resp'.arg].used
                 /\ \A u \in DOMAIN users :
                      u # password_resets[resp'.arg].user_id =>
                         users'[u] = users[u]
            /\ (\/ resp'.arg \notin DOMAIN password_resets
                \/ password_resets[resp'.arg].used
                \/ password_resets[resp'.arg].expires_at < now) =>
                 /\ users' = users
                 /\ password_resets' = password_resets
                 /\ resp'.info = "invalid_link"
       /\ \A t \in DOMAIN password_resets :
            password_resets[t].used =>
               (t \in DOMAIN password_resets' /\ password_resets'[t].used)
       /\ \A u \in DOMAIN users :
            users'[u].password_hash # users[u].password_hash =>
               resp'.route = "reset"]_vars

\* a link that has changed its user's password was followed once more and
\* refused
C12_Witness ==
    /\ resp.route = "reset"
    /\ resp.method = "POST"
    /\ resp.info = "invalid_link"
    /\ resp.arg \in DOMAIN password_resets
    /\ password_resets[resp.arg].used
    /\ password_resets[resp.arg].expires_at >= now
    /\ users[password_resets[resp.arg].user_id].password_hash
         = generate_password_hash("new1")

(***************************************************************************)
(* migrations.run_migrations, statement by statement, in the processes     *)
(* that run it.                                                            *)
(***************************************************************************)
\* a process at work: where it stands, the view it runs, the session and
\* the row of its request, and what it has read or is about to write
Proc(pc, route, sid, arg, status, comment, password) ==
    [pc |-> pc, route |-> route, sid |-> sid, arg |-> arg, status |-> status,
     comment |-> comment, password |-> password]

\* the process starts at pc, or moves there
At(w, p) == [x \in DOMAIN procs \cup {w} |-> IF x = w THEN p ELSE procs[x]]

\* the process ends
Gone(w) == [x \in DOMAIN procs \ {w} |-> procs[x]]

\* a run_migrations that goes on to the bootstrap without the lock
run_migrations_nolock(w) ==
    /\ w \notin DOMAIN procs
    /\ procs' = At(w, Proc("bootstrap", "run_migrations", "none", "none",
                           NULL, NULL, ""))
    /\ UNCHANGED <<dbVars, acctVars, testVars, envVars, histVars,
                   password_resets, advisory_lock>>

\* SELECT pg_advisory_lock(764392): returns once no other session holds the
\* lock; while one does, the statement waits, and after lock_timeout it
\* raises and the process ends having changed nothing
run_migrations_lock(w) ==
    /\ w \notin DOMAIN procs
    /\ advisory_lock = NoProc
    /\ advisory_lock' = w
    /\ procs' = At(w, Proc("bootstrap", "run_migrations", "none", "none",
                           NULL, NULL, ""))
    /\ UNCHANGED <<dbVars, acctVars, testVars, envVars, histVars,
                   password_resets>>

\* bootstrap_schema(conn=conn)
run_migrations_bootstrap(w) ==
    /\ w \in DOMAIN procs
    /\ procs[w].pc = "bootstrap"
    /\ bootstrap_schema_conn
    /\ procs' = [procs EXCEPT ![w].pc = IF boot'.ok THEN "unlock" ELSE "failed"]
    /\ UNCHANGED <<password_resets, advisory_lock>>

\* finally: SELECT pg_advisory_unlock(764392).  After a bootstrap that
\* raised, the statement is refused (the transaction has failed) and the
\* lock stays with the session: it goes when the connection is closed, and
\* stays when the connection returns to the pool
run_migrations_unlock(w) ==
    /\ w \in DOMAIN procs
    /\ procs[w].pc \in {"unlock", "failed"}
    /\ \E closed \in BOOLEAN :
         advisory_lock' = IF advisory_lock = w /\ (procs[w].pc = "unlock" \/ closed)
                          THEN NoProc ELSE advisory_lock
    /\ procs' = Gone(w)
    /\ UNCHANGED <<dbVars, acctVars, testVars, envVars, histVars,
                   password_resets>>

(***************************************************************************)
(* SpecMigrate: two instances come up and run run_migrations, again and    *)
(* again, on a database that is empty or was left by an earlier version.   *)
(***************************************************************************)
NextMigrate ==
    \E w \in {"w1", "w2"} :
       \/ run_migrations_lock(w)
       \/ run_migrations_bootstrap(w)
       \/ run_migrations_unlock(w)

SpecMigrate == InitBootstrap /\ [][NextMigrate]_vars

\* C13: run_migrations serialises the instances: never are two processes
\* in _apply_bootstrap_sql, and a process that is there holds advisory
\* lock 764392.
C13_MigrationsSerialised ==
    /\ Cardinality({w \in DOMAIN procs : procs[w].pc = "bootstrap"}) <= 1
    /\ \A w \in DOMAIN procs : procs[w].pc = "bootstrap" => advisory_lock = w

\* one instance has run the bootstrap and released the lock, the other
\* holds the lock and runs the bootstrap now
C13_Witness ==
    /\ boot.runs = 1
    /\ "w2" \in DOMAIN procs
    /\ procs["w2"].pc = "bootstrap"
    /\ advisory_lock = "w2"
    /\ "w1" \notin DOMAIN procs

(***************************************************************************)
(* The views that read, decide and then write, statement by statement: a   *)
(* request that has passed its checks holds what it read while the other   *)
(* requests go on.  Each view runs its SELECT and its INSERT or UPDATE on  *)
(* a READ COMMITTED connection and takes no row lock in between.           *)
(***************************************************************************)
\* main.form up to "if already_submitted": the COUNT(*) found no row
form_count(w, sid) ==
    /\ w \notin DOMAIN procs
    /\ LET u == get_user_by_email(sessions[sid].user_email) IN
       /\ login_required(sid)
       /\ u # NoUser
       /\ ~already_submitted(u)
       /\ procs' = At(w, Proc("form_insert", "form", sid, u, NULL, NULL, ""))
       /\ RespondFor("form", sid, "POST", u, 0, "pending", NoScore)
    /\ UNCHANGED <<dbVars, acctVars, testVars, now, outbox, histVars,
                   password_resets, advisory_lock>>

\* main.form from the INSERT on
form_insert(w) ==
    /\ w \in DOMAIN procs
    /\ procs[w].pc = "form_insert"
    /\ \E id \in uuid4(AppIds, DOMAIN applications) :
         LET row == AppRowAfterTriggers(schema, NewAppRow(procs[w].arg)) IN
         IF AppRowAccepted(schema, row)
         THEN /\ applications' =
                   [a \in DOMAIN applications \cup {id} |->
                       IF a = id THEN row ELSE applications[a]]
              /\ seq' = advance(seq)
              /\ Respond("form", procs[w].sid, "POST", 302, "submitted")
         ELSE /\ Respond("form", procs[w].sid, "POST", 302, "db_error")
              /\ UNCHANGED <<applications, seq>>
    /\ procs' = Gone(w)
    /\ UNCHANGED <<schema, commission_logs, acctVars, testVars, now, outbox,
                   histVars, password_resets, advisory_lock>>

\* admin_update_app_status up to "if row['commission_status']": the
\* SELECT found the application undecided
admin_update_app_status_select(w, sid, app_id, status, comment) ==
    /\ w \notin DOMAIN procs
    /\ admin_required(sid)
    /\ status \in {S_Odobreno, S_Otkloneno}
    /\ app_id \in DOMAIN applications
    /\ ~is_decided(applications[app_id].commission_status)
    /\ procs' = At(w, Proc("decision_update", "admin_update_app_status", sid,
                           app_id, status, comment, ""))
    /\ RespondFor("admin_update_app_status", sid, "POST", app_id, 0, "pending",
                  NoScore)
    /\ UNCHANGED <<dbVars, acctVars, testVars, now, outbox, histVars,
                   password_resets, advisory_lock>>

\* admin_decide up to "if row['commission_status']"
admin_decide_select(w, sid, app_id, raw_status, raw_reason, translated) ==
    /\ w \notin DOMAIN procs
    /\ LET u      == get_user_by_email(sessions[sid].user_email)
           status == btrim(lower(raw_status))
           reason == btrim(raw_reason)
       IN
       /\ u # NoUser
       /\ users[u].role = "admin"
       /\ status \in {S_approved, S_rejected}
       /\ ~(status = S_rejected /\ reason = S_empty)
       /\ app_id \in DOMAIN applications
       /\ ~is_decided(applications[app_id].commission_status)
       /\ procs' = At(w, Proc("decision_update", "admin_decide", sid, app_id,
                              gettext(IF status = S_approved THEN S_Odobreno
                                      ELSE S_Otkloneno, translated),
                              IF reason = S_empty THEN NULL ELSE reason, ""))
       /\ RespondFor("admin_decide", sid, "POST", app_id, 0, "pending", NoScore)
    /\ UNCHANGED <<dbVars, acctVars, testVars, now, outbox, histVars,
                   password_resets, advisory_lock>>

\* both decision views from the UPDATE on: UPDATE, COMMIT, the e-mail
decision_update(w) ==
    /\ w \in DOMAIN procs
    /\ procs[w].pc = "decision_update"
    /\ LET p   == procs[w]
           row == UpdatedAppRow(p.arg, p.status, p.comment)
       IN
       IF AppRowAccepted(schema, row)
       THEN /\ applications' = [applications EXCEPT ![p.arg] = row]
            /\ outbox' = outbox + 1
            /\ approved_via' =
                 IF to_status_code(p.status) = S_approved
                 THEN [a \in DOMAIN approved_via \cup {p.arg} |->
                          IF a = p.arg THEN p.route ELSE approved_via[a]]
                 ELSE approved_via
            /\ IF p.route = "admin_decide"
               THEN RespondFor(p.route, p.sid, "POST", p.arg, 200, "ok", NoScore)
               ELSE RespondFor(p.route, p.sid, "POST", p.arg, 302, "updated",
                               NoScore)
       ELSE /\ RespondFor(p.route, p.sid, "POST", p.arg, 500, "db_error", NoScore)
            /\ UNCHANGED <<applications, outbox, approved_via>>
    /\ procs' = Gone(w)
    /\ UNCHANGED <<schema, seq, commission_logs, acctVars, testVars, now,
                   boot, first_deadline, password_resets, advisory_lock>>

\* auth.reset up to the validation of the form: the link was found good
reset_select(w, sid, token, f) ==
    /\ w \notin DOMAIN procs
    /\ ~link_invalid(token)
    /\ f.long
    /\ f.password = f.password2
    /\ procs' = At(w, Proc("reset_update", "reset", sid, token, NULL, NULL,
                           f.password))
    /\ RespondFor("reset", sid, "POST", token, 0, "pending", NoScore)
    /\ UNCHANGED <<dbVars, acctVars, testVars, now, outbox, histVars,
                   password_resets, advisory_lock>>

\* auth.reset from the two UPDATEs on
reset_update(w) ==
    /\ w \in DOMAIN procs
    /\ procs[w].pc = "reset_update"
    /\ LET p == procs[w] IN
       /\ users' = [users EXCEPT
                      ![password_resets[p.arg].user_id].password_hash =
                         generate_password_hash(p.password)]
       /\ password_resets' = [password_resets EXCEPT ![p.arg].used = TRUE]
       /\ RespondFor("reset", p.sid, "POST", p.arg, 302, "password_updated",
                     NoScore)
    /\ procs' = Gone(w)
    /\ UNCHANGED <<dbVars, sessions, internal_user_logs, testVars, now, outbox,
                   histVars, advisory_lock>>

(***************************************************************************)
(* SpecConc: two workers serve the requests of an applicant (two tabs of   *)
(* one browser) and of a commission member at the same time: the           *)
(* applicant submits the form and follows a reset link, the commission     *)
(* decides on the application.  A request is served in one piece (form,    *)
(* admin_decide, admin_update_app_status, reset), or its statements are    *)
(* interleaved with those of the request the other worker serves.          *)
(***************************************************************************)
NextConc ==
    \/ forgot("b1", "POST", "u1@x")
    \/ form("b1", "POST")
    \/ admin_update_app_status("b3", "a1", S_Odobreno, NULL)
    \/ admin_decide("b3", "a1", S_rejected, S_reason, FALSE)
    \/ \E pw \in {"new1", "new2"} :
         reset("b1", "k1", "POST",
               [long |-> TRUE, password |-> pw, password2 |-> pw])
    \/ \E w \in {"w1", "w2"} :
         \/ form_count(w, "b1")
         \/ form_insert(w)
         \/ admin_update_app_status_select(w, "b3", "a1", S_Odobreno, NULL)
         \/ admin_decide_select(w, "b3", "a1", S_rejected, S_reason, FALSE)
         \/ decision_update(w)
         \/ \E pw \in {"new1", "new2"} :
              reset_select(w, "b1", "k1",
                           [long |-> TRUE, password |-> pw, password2 |-> pw])
         \/ reset_update(w)

SpecConc == InitTakeTest /\ [][NextConc]_vars

\* C16: of two decision requests made at the same time on an undecided
\* application one sets commission_status and sends its e-mail, the other
\* finds the decision taken and changes nothing: a decision is written
\* only to an application that has none, and no more e-mails are sent than
\* applications are decided.
C16_OneDecisionWins ==
    /\ [][(/\ resp'.route \in {"admin_decide", "admin_update_app_status"}
           /\ resp'.info \in {"ok", "updated"})
          => ~is_decided(applications[resp'.arg].commission_status)]_vars
    /\ [](outbox <= Cardinality({a \in DOMAIN applications :
                       is_decided(applications[a].commission_status)}))

\* C17: whatever the interleaving of the POST /form requests of one user,
\* the user ends with at most one row in applications.
C17_OneApplicationUnderRace ==
    \A u \in DOMAIN users :
       Cardinality({a \in DOMAIN applications :
                       applications[a].user_id = u}) <= 1

\* C18: of two POST /reset/<token> requests made at the same time with the
\* same valid token at most one updates the password_hash: the hash is
\* written only under a token that is not yet used.
C18_OneResetWins ==
    [][(resp'.route = "reset" /\ resp'.info = "password_updated")
       => ~password_resets[resp'.arg].used]_vars

(***************************************************************************)
(* SpecStatus: to_status_code applied, and applied again, to the status of *)
(* a row written before the triggers existed.  The status is NULL, any     *)
(* text of up to MaxLen characters out of blanks, a tab, digits and        *)
(* letters, one of the words the function knows, or one of the labels the  *)
(* views write, as they are or with blanks around them.                    *)
(***************************************************************************)
InitStatus ==
    /\ schema = LegacySchema(FALSE)
    /\ seq = setval(1)
    /\ \E s \in {NULL}
                \cup UNION {[1..n -> {" ", "tab", "1", "0", "o", "k"}] : n \in 0..MaxLen}
                \cup ApprovedWords \cup RejectedWords
                \cup {S_Odobreno, S_Otkloneno, S_Approved_sp, S_pending,
                      S_ky_approved, S_odobr \o S_1, S_space \o S_otklon,
                      S_reject \o S_space, S_space \o S_da \o S_space,
                      S_da \o S_net, S_approved \o S_1, S_space \o S_pending} :
         applications = [a \in {"a1"} |->
                           [user_id |-> "u1", commission_status |-> s,
                            commission_comment |-> NULL, public_no |-> 0,
                            created_at |-> 0]]
    /\ commission_logs = << >>
    /\ boot = [runs |-> 0, ok |-> TRUE, first_ok |-> FALSE,
               first |-> Snapshot(schema, applications, commission_logs)]
    /\ InitRest

\* SELECT to_status_code(commission_status), written back to the row
status_to_code ==
    /\ boot.runs < 2
    /\ applications' = [a \in DOMAIN applications |->
                          [applications[a] EXCEPT
                             !.commission_status = to_status_code(@)]]
    /\ boot' = [boot EXCEPT !.runs = @ + 1]
    /\ UNCHANGED <<schema, seq, commission_logs, acctVars, testVars, envVars,
                   approved_via, first_deadline, reqVars>>

SpecStatus == InitStatus /\ [][status_to_code]_vars

\* C19: to_status_code gives NULL for NULL and for a text of blanks only;
\* 'approved' for a text that, trimmed and in lower case, starts with
\* 'одобр' or is an approving word; 'rejected' for one that starts with
\* 'отклон' or is a rejecting word; every other text as it was given.  So
\* applying it once more changes nothing.
C19_StatusCodeMapping ==
    boot.runs >= 1 =>
      LET s == boot.first.applications["a1"].commission_status
          r == applications["a1"].commission_status
          v == lower(btrim(s))
      IN
      IF s = NULL THEN r = NULL
      ELSE IF \A i \in 1..Len(s) : s[i] = " " THEN r = NULL
      ELSE IF StartsWith(v, S_odobr) \/ v \in ApprovedWords THEN r = S_approved
      ELSE IF StartsWith(v, S_otklon) \/ v \in RejectedWords THEN r = S_rejected
      ELSE r = s

\* to_status_code was applied twice to a text it does not know and that
\* has a blank at its end, and the text is as it was
C19_Witness ==
    /\ boot.runs = 2
    /\ applications["a1"].commission_status = <<"o", "1", " ">>
    /\ boot.first.applications["a1"].commission_status = <<"o", "1", " ">>

(***************************************************************************)
(* SpecScore: an applicant the approval gate has let through answers a     *)
(* published test of two questions.  The commission stores the questions   *)
(* as free JSON: a question says it is "single" or "multi", with or        *)
(* without "multiple": true, a list "correct" and a "correct_index", which *)
(* may be absent, an index, or -1.  In a list, -1 stands for an item that  *)
(* is not a number.                                                        *)
(***************************************************************************)
InitScore ==
    /\ InitBootstrapped
    /\ users = [u \in {"u1"} |-> UserRow("u1@x", "user", "pw", NoTime, FALSE)]
    /\ sessions = [b \in {"b1"} |-> SessionRow("u1@x", "u1")]
    /\ \E qs \in [1..2 -> [type : {"single", "multi"}, multiple : BOOLEAN,
                           correct : {<<>>, <<1, 0>>, <<1, 1>>, <<-1>>},
                           correct_index : {<<>>, <<1>>, <<-1>>}]] :
         tests = [t \in {"t1"} |-> TestRow(TRUE, 0, qs)]

\* what a browser can post under q1 and q2: nothing, an index, two
\* indices, the same index twice, a text that is not a number
ScoreForms == [1..2 -> {<<>>, <<1>>, <<0, 1>>, <<1, 1>>, <<-1>>}]

NextScore ==
    \E m \in {"GET", "POST"}, p \in ScoreForms :
       take_test_admitted("take_test", "b1", "t1", m, p)

SpecScore == InitScore /\ [][NextScore]_vars

NextTargets ==
    \/ login("b1", "POST", "p1@x", "pw")
    \/ create_internal_user("b1", TRUE, "n1@x", TRUE, D_date)
    \/ \E u \in {"p1", "u1", "n1"}, d \in {D_date, D_bad} :
         extend_access("b1", u, d)
    \/ \E u \in {"p1", "u1", "n1"}, f \in UpdateForms :
         update_user("b1", u, f[1], f[2])
    \/ \E u \in {"p1", "u1", "n1"} : delete_user("b1", u)
    \/ Tick

SpecTargets == InitProv /\ [][NextTargets]_vars

\* C21: extend_access, update_user and delete_user change a users row only
\* if its role is 'admin'; asked by a provisioner for the id of an
\* applicant or of a provisioner, the caller included, they leave the row
\* as it is and answer 404 (extend_access 400 when the date does not
\* parse).
C21_OnlyAdminRowsTouched ==
    [][resp'.route \in {"extend_access", "update_user", "delete_user"} =>
         /\ \A u \in DOMAIN users :
              users'[u] # users[u] => users[u].role = "admin"
         /\ (/\ provisioner_required(resp'.sid)
             /\ resp'.arg \in DOMAIN users
             /\ users[resp'.arg].role # "admin")
            => /\ resp'.code \in {404, 400}
               /\ users'[resp'.arg] = users[resp'.arg]]_vars
====
